---- MODULE Spec2Model ----
(***************************************************************************)
(* A model of the advertising-data extraction script get_data.py: the      *)
(* image and video reference resolvers, the per-ad creative and insights   *)
(* fetch loops, the ad-listing loop, reconciliation of resolved URLs into  *)
(* the creatives, hierarchical grouping and flattening.                    *)
(*                                                                         *)
(* Python dictionaries are functions whose DOMAIN is the set of keys       *)
(* present; lists are sequences; None is the value None below.  Each part  *)
(* of the script has its own program counter and its own specification;    *)
(* the variables of the other parts stay at their idle values.             *)
(***************************************************************************)
EXTENDS Integers, Sequences, FiniteSets, TLC

VARIABLES
    \* ---- fetch_image_urls ----
    hash_list,      \* the list of hashes handed to fetch_image_urls
    batch_size,     \* its batch_size parameter
    imgI,           \* the loop variable i of range(0, len(hash_list), batch_size)
    hash_url_map,   \* hash_url_map, the image resolution map
    imgPc,          \* "idle" | "start" | "loop" | "merge" | "done" | "raised"
    imgRequests,    \* the batches carried by the lookup requests issued so far
    imgTrace,       \* "request" / "sleep" events in the order performed
    imgItems,       \* items of the current response's 'data' list merged so far
    imgOverwrites,  \* whether the overwrite warning of line 101 was printed
    imgMerged,      \* per lookup request: how often its response wrote each hash
    \* ---- fetch_video_urls_with_backoff ----
    video_ids,      \* the list of video identifiers handed to the resolver
    vidIdx,         \* index in video_ids of the identifier being resolved
    vidAttempt,     \* the loop variable attempt of range(max_retries)
    video_url_map,  \* video_url_map, the video resolution map
    vidPc,          \* "idle" | "start" | "loop" | "done"
    vidRequests,    \* per index of video_ids: the number of lookup requests issued
    vidSourceSeen,  \* indexes of video_ids whose lookup returned a 'source' field
    vidSleeps,      \* per index of video_ids: the backoff delays slept, in order
    vidLast,        \* the last lookup answered: index, attempt and outcome
    \* ---- ad listing (Step 1) ----
    listUrl,        \* the page still to fetch (0: url is None, the loop has ended)
    listPage,       \* the variable page
    listTries,      \* requests issued for the current page (saturates at MaxListTries)
    listPc,         \* "idle" | "loop" | "done"
    \* ---- the ads and the per-ad fetch loops (Steps 1.5 and 1.75) ----
    ads,            \* the list ads of ad dictionaries
    fetchPc,        \* "idle" | "creative" | "insights" | "done"
    fetchIdx,       \* index in ads of the ad being fetched
    fetchAttempt,   \* the loop variable attempt of range(max_retries)
    all_creatives,  \* all_creatives: ad id -> creative
    all_insights,   \* all_insights: ad id -> insights entry
    fetchReqs,      \* per index of ads: the requests issued in the running phase
    fetch429s,      \* 429 responses received in the retry loop now running
    fetchLast,      \* the last response of the retry loop and the sleep that followed
    \* ---- reconciliation (Step 4) ----
    reconPc,        \* "idle" | "loop" | "done"
    reconIdx,       \* index in ads of the ad being reconciled
    fetchedAds,     \* the ads as they were when reconciliation started
    reconLoc,       \* index of the reference location of the ad being reconciled
    disk,           \* the files under media_dir: path -> "complete" | "partial"
    downloads,      \* the paths a download request was issued for, in order
    \* ---- grouping and flattening (Steps 4.5 and 6) ----
    flatPc,         \* "idle" | "group" | "flatten" | "done" | "raised"
    groupIdx,       \* index in ads of the ad being grouped
    hierarchical_data, \* the campaign nodes, in insertion order
    flatPos,        \* <<campaign, adset, ad>> position of the flattening loops
    records,        \* the list records of flat records
    flatError,      \* the exception that ended the flattening, or None
    \* ---- reference collection (Step 2) ----
    collectPc,      \* "idle" | "loop" | "done"
    collectList,    \* the list of ads the collection loop walks
    collectIdx,     \* index in collectList of the ad being walked
    hashes,         \* the set hashes of collected image hashes
    video_id_set,   \* the set video_ids of collected video identifiers
    collected,      \* the reference sets of the collection passes that have ended
    \* ---- a call of a helper function ----
    callPc,         \* "idle" | "call" | "classify" | "returned" | "raised"
    callArgs,       \* the arguments of the call
    callResult,     \* the value the call returned
    \* ---- the module's start (lines 28-34) ----
    startPc,        \* "import" | "exited" | "main"
    ACCESS_TOKEN,   \* os.getenv("META_ACCESS_TOKEN"): a string or None
    AD_ACCOUNT_ID   \* os.getenv("META_AD_ACCOUNT_ID"): a string or None

imgVars   == <<hash_list, batch_size, imgI, hash_url_map, imgPc, imgRequests, imgTrace,
               imgItems, imgOverwrites, imgMerged>>
vidVars   == <<video_ids, vidIdx, vidAttempt, video_url_map, vidPc, vidRequests,
               vidSourceSeen, vidSleeps, vidLast>>
listVars  == <<listUrl, listPage, listTries, listPc>>
fetchVars == <<fetchPc, fetchIdx, fetchAttempt, all_creatives, all_insights,
               fetchReqs, fetch429s, fetchLast>>
reconVars == <<reconPc, reconIdx, fetchedAds, reconLoc, disk, downloads>>
flatVars  == <<flatPc, groupIdx, hierarchical_data, flatPos, records, flatError>>
collectVars == <<collectPc, collectList, collectIdx, hashes, video_id_set, collected>>
callVars  == <<callPc, callArgs, callResult>>
envVars   == <<startPc, ACCESS_TOKEN, AD_ACCOUNT_ID>>
vars == <<imgVars, vidVars, listVars, ads, fetchVars, reconVars, flatVars,
          collectVars, callVars, envVars>>

(***************************************************************************)
(* Python values                                                           *)
(***************************************************************************)
\* JSON null / Python None, where a string is expected.
None == "<None>"

\* The empty dictionary {} (and the empty list []).
EmptyDict == <<>>

\* Python truthiness of a string-or-None value.
Truthy(v) == v # None /\ v # ""

\* Python truthiness of a dictionary or a list: it is not empty.
NonEmpty(v) == DOMAIN v # {}

\* d.get(k, default) on a dictionary.
DictGet(d, k, default) == IF k \in DOMAIN d THEN d[k] ELSE default

\* d[k] = v on a dictionary.
DictSet(d, k, v) == [x \in (DOMAIN d) \cup {k} |-> IF x = k THEN v ELSE d[x]]

Min(a, b) == IF a <= b THEN a ELSE b

\* ceil(n / b) for b > 0.
CeilDiv(n, b) == (n + b - 1) \div b

\* The set of the elements of a sequence.
Range(s) == {s[k] : k \in DOMAIN s}

\* Sequences over S of length at most n.
SeqsUpTo(S, n) == UNION {[1..k -> S] : k \in 0..n}

\* Sequences over S of length at most n without repeated elements.
DistinctSeqsUpTo(S, n) ==
    {s \in SeqsUpTo(S, n) : \A a, b \in DOMAIN s : a # b => s[a] # s[b]}

(***************************************************************************)
(* Idle values: the state of a part of the script that is not running.     *)
(***************************************************************************)
ImgIdle ==
    /\ hash_list = <<>> /\ batch_size = 1 /\ imgI = 0 /\ hash_url_map = EmptyDict
    /\ imgPc = "idle" /\ imgRequests = <<>> /\ imgTrace = <<>>
    /\ imgItems = 0 /\ imgOverwrites = FALSE
    /\ imgMerged = <<>>

VidIdle ==
    /\ video_ids = <<>> /\ vidIdx = 1 /\ vidAttempt = 0 /\ video_url_map = EmptyDict
    /\ vidPc = "idle" /\ vidRequests = <<>> /\ vidSourceSeen = {} /\ vidSleeps = <<>>
    /\ vidLast = [k |-> 0, attempt |-> 0, outcome |-> "none"]

ListIdle == listUrl = 0 /\ listPage = 1 /\ listTries = 0 /\ listPc = "idle"

FetchIdle ==
    /\ fetchPc = "idle" /\ fetchIdx = 1 /\ fetchAttempt = 0
    /\ all_creatives = EmptyDict /\ all_insights = EmptyDict
    /\ fetchReqs = <<>> /\ fetch429s = 0
    /\ fetchLast = [resp |-> "none", slept |-> 0]

ReconIdle ==
    /\ reconPc = "idle" /\ reconIdx = 1 /\ fetchedAds = <<>>
    /\ reconLoc = 1 /\ disk = EmptyDict /\ downloads = <<>>

FlatIdle ==
    /\ flatPc = "idle" /\ groupIdx = 1 /\ hierarchical_data = <<>>
    /\ flatPos = <<1, 1, 1>> /\ records = <<>> /\ flatError = None

CollectIdle ==
    /\ collectPc = "idle" /\ collectList = <<>> /\ collectIdx = 1
    /\ hashes = {} /\ video_id_set = {} /\ collected = <<>>

CallIdle == callPc = "idle" /\ callArgs = <<>> /\ callResult = None

\* The module is past the test of line 32: both credentials are set.
EnvSet == startPc = "main" /\ ACCESS_TOKEN = "token" /\ AD_ACCOUNT_ID = "act_id"

(***************************************************************************)
(* fetch_image_urls (get_data.py 66-118)                                   *)
(***************************************************************************)
\* Bounds of the image resolver's inputs and responses.
MaxHashes == 3
MaxBatchSize == 2
MaxItems == 2

\* The hashes and URLs of the model.
Hashes == {"h1", "h2", "h3"}
Urls == {"https://x/img.jpg", "https://x/video"}

\* One entry of a lookup response's 'data' list: item.get('hash') and
\* item.get('url') are None when the key is missing.
ImageItems == [hash : Hashes \cup {None}, url : Urls \cup {None, ""}]

\* The request-level failures the except clauses of fetch_image_urls catch.
ImageFailures == {"timeout", "http_error", "request_error", "json_decode_error"}

\* The merge rebinding the map to the item at hand instead of adding to it.
MergeItem_Rebind(map, item) ==
    IF Truthy(item.hash) /\ Truthy(item.url)
    THEN DictSet(EmptyDict, item.hash, item.url)
    ELSE map

\* Lines 98-103, one item of the response: if h and u: hash_url_map[h] = u.
MergeItem(map, item) ==
    IF Truthy(item.hash) /\ Truthy(item.url)
    THEN DictSet(map, item.hash, item.url)
    ELSE map

\* Line 100: the item's hash is already a key of the map (the overwrite warning).
OverwritesEntry(map, item) ==
    Truthy(item.hash) /\ Truthy(item.url) /\ item.hash \in DOMAIN map

\* The slice starting one element early, so that consecutive batches overlap.
BatchAt_Overlapping(list, i, size) ==
    SubSeq(list, IF i = 0 THEN 1 ELSE i, Min(i + size, Len(list)))

\* batch = list(hash_list)[i:i + batch_size]
BatchAt(list, i, size) == SubSeq(list, i + 1, Min(i + size, Len(list)))

\* The variables of the other parts of the script, which the resolver leaves alone.
ImgFrame == UNCHANGED <<vidVars, listVars, ads, fetchVars, reconVars, flatVars, collectVars, callVars, envVars>>

\* The for loop's step: the next i, and the return once the range is exhausted.
ImageAdvance ==
    /\ imgI' = imgI + batch_size
    /\ imgPc' = IF imgI + batch_size >= Len(hash_list) THEN "done" ELSE "loop"
    /\ imgItems' = 0

\* Lines 70-73: an empty hash_list returns {} at once, before any request.
FetchImageStart ==
    /\ imgPc = "start"
    /\ imgPc' = IF hash_list = <<>> THEN "done" ELSE "loop"
    /\ UNCHANGED <<hash_list, batch_size, imgI, hash_url_map, imgRequests, imgTrace,
                   imgItems, imgOverwrites, imgMerged>>
    /\ ImgFrame

\* Lines 79-96: the request of a batch succeeds and its body has no 'error' key;
\* the items of its 'data' list are merged next.
ImageBatchOk ==
    /\ imgPc = "loop"
    /\ imgRequests' = Append(imgRequests, BatchAt(hash_list, imgI, batch_size))
    /\ imgTrace' = Append(imgTrace, "request")
    /\ imgMerged' = Append(imgMerged, EmptyDict)
    /\ imgPc' = "merge"
    /\ UNCHANGED <<hash_list, batch_size, imgI, hash_url_map, imgItems, imgOverwrites>>
    /\ ImgFrame

\* Lines 97-103: the next item of the response's 'data' list is merged.
ImageMergeItem ==
    /\ imgPc = "merge"
    /\ imgItems < MaxItems
    /\ \E item \in ImageItems :
         /\ hash_url_map' = MergeItem(hash_url_map, item)
         /\ imgOverwrites' = (imgOverwrites \/ OverwritesEntry(hash_url_map, item))
         /\ imgMerged' = IF Truthy(item.hash) /\ Truthy(item.url)
                         THEN [imgMerged EXCEPT ![Len(imgMerged)] =
                                  DictSet(@, item.hash, DictGet(@, item.hash, 0) + 1)]
                         ELSE imgMerged
    /\ imgItems' = imgItems + 1
    /\ UNCHANGED <<hash_list, batch_size, imgI, imgPc, imgRequests, imgTrace>>
    /\ ImgFrame

\* Lines 105, 115: the 'data' list is exhausted; the loop sleeps and goes on.
ImageBatchEnd ==
    /\ imgPc = "merge"
    /\ imgTrace' = Append(imgTrace, "sleep")
    /\ ImageAdvance
    /\ UNCHANGED <<hash_list, batch_size, hash_url_map, imgRequests, imgOverwrites,
                   imgMerged>>
    /\ ImgFrame

\* Lines 92-94: the body carries an 'error' key; continue skips the rest of the
\* loop body, the sleep of line 115 included.
ImageBatchApiError ==
    /\ imgPc = "loop"
    /\ imgRequests' = Append(imgRequests, BatchAt(hash_list, imgI, batch_size))
    /\ imgTrace' = Append(imgTrace, "request")
    /\ imgMerged' = Append(imgMerged, EmptyDict)
    /\ ImageAdvance
    /\ UNCHANGED <<hash_list, batch_size, hash_url_map, imgOverwrites>>
    /\ ImgFrame

\* Lines 107-115: a timeout, an HTTP error, another request error or a body that
\* is not JSON is caught; the batch is skipped and the loop sleeps and goes on.
ImageBatchFailure ==
    /\ imgPc = "loop"
    /\ \E failure \in ImageFailures :
         imgTrace' = imgTrace \o <<"request", "sleep">>
    /\ imgRequests' = Append(imgRequests, BatchAt(hash_list, imgI, batch_size))
    /\ imgMerged' = Append(imgMerged, EmptyDict)
    /\ ImageAdvance
    /\ UNCHANGED <<hash_list, batch_size, hash_url_map, imgOverwrites>>
    /\ ImgFrame

\* What a decodable body of the wrong shape does (a JSON list, string or null, a
\* 'data' that is no list of objects): 'error' in data, data.get or item.get
\* raises TypeError / AttributeError, which none of the except clauses of lines
\* 107-114 catches, so the exception leaves fetch_image_urls and the script.
MalformedPayloadPc == "raised"

\* Lines 90-98 on a body of the wrong shape.
ImageBatchMalformed ==
    /\ imgPc \in {"loop", "merge"}
    /\ imgRequests' = IF imgPc = "loop"
                      THEN Append(imgRequests, BatchAt(hash_list, imgI, batch_size))
                      ELSE imgRequests
    /\ imgTrace' = IF imgPc = "loop" THEN Append(imgTrace, "request") ELSE imgTrace
    /\ imgMerged' = IF imgPc = "loop" THEN Append(imgMerged, EmptyDict) ELSE imgMerged
    /\ imgPc' = MalformedPayloadPc
    /\ UNCHANGED <<hash_list, batch_size, imgI, hash_url_map, imgItems, imgOverwrites>>
    /\ ImgFrame

ImgNext ==
    \/ FetchImageStart
    \/ ImageBatchOk
    \/ ImageMergeItem
    \/ ImageBatchEnd
    \/ ImageBatchApiError
    \/ ImageBatchFailure
    \/ ImageBatchMalformed

\* fetch_image_urls called with a list of distinct hashes (line 521 passes
\* list(hashes) of a set) and a positive batch size.
ImgInit ==
    /\ hash_list \in DistinctSeqsUpTo(Hashes, MaxHashes)
    /\ batch_size \in 1..MaxBatchSize
    /\ imgI = 0 /\ hash_url_map = EmptyDict /\ imgPc = "start"
    /\ imgRequests = <<>> /\ imgTrace = <<>> /\ imgItems = 0 /\ imgOverwrites = FALSE
    /\ imgMerged = <<>>
    /\ VidIdle /\ ListIdle /\ ads = <<>> /\ FetchIdle /\ ReconIdle /\ FlatIdle
    /\ CollectIdle /\ CallIdle /\ EnvSet

SpecImg == ImgInit /\ [][ImgNext]_vars

\* C8: image resolution of N distinct hashes with batch size B issues exactly
\* ceil(N/B) lookup requests (none when N = 0), every batch carries at most B
\* hashes, every hash is carried by exactly one request, and no batch is
\* requested twice.  Stated of the resolver once it has ended, by returning or
\* by raising.
C8_BatchPartition ==
    /\ \A r \in DOMAIN imgRequests : Len(imgRequests[r]) <= batch_size
    /\ \A r, q \in DOMAIN imgRequests :
         r # q => Range(imgRequests[r]) \cap Range(imgRequests[q]) = {}
    /\ imgPc \in {"done", "raised"} =>
         /\ Len(imgRequests) = CeilDiv(Len(hash_list), batch_size)
         /\ \A h \in Range(hash_list) :
              Cardinality({r \in DOMAIN imgRequests : h \in Range(imgRequests[r])}) = 1

\* C9: a batch whose request fails (timeout, HTTP error, request error,
\* undecodable body, malformed payload, error object in the body) is skipped:
\* the step adds no entry to the map, leaves the earlier entries unchanged, and
\* the loop goes on to the later batches (or returns after the last one).
C9_FailedBatchSkipped ==
    [][(ImageBatchApiError \/ ImageBatchFailure \/ ImageBatchMalformed) =>
         /\ hash_url_map' = hash_url_map
         /\ imgPc' \in {"loop", "done"}]_vars

\* C26: between any two consecutive batch lookup requests of fetch_image_urls
\* the fixed delay is slept, whatever the earlier batch's outcome: the trace of
\* requests and sleeps never holds two requests in a row.
C26_DelayBetweenBatches ==
    \A k \in 1..(Len(imgTrace) - 1) :
        imgTrace[k] = "request" => imgTrace[k + 1] = "sleep"

\* How often line 102 has written the hash h, over the responses up to r.
RECURSIVE WritesUpTo(_, _)
WritesUpTo(h, r) ==
    IF r = 0 THEN 0 ELSE DictGet(imgMerged[r], h, 0) + WritesUpTo(h, r - 1)

Writes(h) == WritesUpTo(h, Len(imgMerged))

\* Every response so far listed only hashes of its own batch, each once.
AnswersMatchBatches ==
    \A r \in DOMAIN imgMerged :
        /\ DOMAIN imgMerged[r] \subseteq Range(imgRequests[r])
        /\ \A h \in DOMAIN imgMerged[r] : imgMerged[r][h] = 1

\* C29 as stated: with distinct input hashes no hash is written to the map more
\* than once and the overwrite warning is never printed.
C29_OverwriteUnreachable ==
    /\ ~imgOverwrites
    /\ \A h \in Hashes : Writes(h) <= 1

\* C29 amended: with distinct input hashes, as long as every response lists
\* only hashes of its own batch and each of them once, no hash is written to the
\* map more than once and the overwrite warning is not printed.
C29_NoOverwriteWhenAnswersMatch ==
    AnswersMatchBatches =>
        /\ ~imgOverwrites
        /\ \A h \in Hashes : Writes(h) <= 1

\* C29 witness: three distinct hashes were resolved in two batches, each
\* response listing the hashes of its batch, and nothing was overwritten.
C29_Witness ==
    /\ imgPc = "done"
    /\ Len(hash_list) = 3 /\ batch_size = 2 /\ Len(imgRequests) = 2
    /\ AnswersMatchBatches
    /\ DOMAIN imgMerged[1] = Range(imgRequests[1])
    /\ DOMAIN imgMerged[2] = Range(imgRequests[2])
    /\ DOMAIN hash_url_map = Range(hash_list)
    /\ ~imgOverwrites

(***************************************************************************)
(* fetch_video_urls_with_backoff (get_data.py 120-186)                     *)
(***************************************************************************)
\* max_retries and base_delay, the defaults line 523 calls the resolver with.
max_retries == 3
base_delay == 1

\* Bound of the video resolver's input.
MaxVideos == 2

\* The video identifiers of the model.
VideoIds == {"v1", "v2", "v3"}

\* The values a response's 'source' field can hold: a URL, JSON null, "".
SourceValues == Urls \cup {None, ""}

\* HTTP error statuses raise_for_status raises on.
HttpErrorStatuses == {400, 403, 404, 429, 500, 501, 502, 503, 504}

\* Line 163: the statuses the resolver retries.
RetriedStatuses == {500, 502, 503, 504}

\* 2 ** n
RECURSIVE Pow2(_)
Pow2(n) == IF n = 0 THEN 1 ELSE 2 * Pow2(n - 1)

\* Lines 165, 177: delay = base_delay * (2 ** attempt)
BackoffDelay(attempt) == base_delay * Pow2(attempt)

VidFrame == UNCHANGED <<imgVars, listVars, ads, fetchVars, reconVars, flatVars, collectVars, callVars, envVars>>

\* One more lookup request issued for the identifier at vidIdx (line 137).
VideoRequestIssued ==
    vidRequests' = [vidRequests EXCEPT ![vidIdx] = @ + 1]

\* The lookup of this attempt has been answered.
VideoAnswered(outcome) ==
    vidLast' = [k |-> vidIdx, attempt |-> vidAttempt, outcome |-> outcome]

\* The break written as a return: the resolver ends at the first identifier
\* whose retry loop is left.
VideoNextId_Return ==
    /\ vidIdx' = vidIdx + 1
    /\ vidAttempt' = 0
    /\ vidPc' = "done"

\* break (or the end of range(max_retries)): the outer loop takes the next
\* identifier, and the resolver returns after the last one.
VideoNextId ==
    /\ vidIdx' = vidIdx + 1
    /\ vidAttempt' = 0
    /\ vidPc' = IF vidIdx + 1 > Len(video_ids) THEN "done" ELSE "loop"

\* continue, or falling off the end of the loop body: the next attempt of the
\* same identifier, or the end of range(max_retries).
VideoNextAttempt ==
    IF vidAttempt + 1 < max_retries
    THEN vidAttempt' = vidAttempt + 1 /\ UNCHANGED <<vidIdx, vidPc>>
    ELSE VideoNextId

\* Line 143: break after the source has been recorded.
VideoAfterSource == VideoNextId

\* Lines 125-128: an empty list returns {} at once.
FetchVideoStart ==
    /\ vidPc = "start"
    /\ vidPc' = IF video_ids = <<>> THEN "done" ELSE "loop"
    /\ UNCHANGED <<video_ids, vidIdx, vidAttempt, video_url_map, vidRequests,
                   vidSourceSeen, vidSleeps, vidLast>>
    /\ VidFrame

\* Lines 137-143: the response has a 'source' key; its value is recorded whatever
\* it is, and the retry loop is left.
VideoSource ==
    /\ vidPc = "loop"
    /\ VideoRequestIssued
    /\ VideoAnswered("source")
    /\ \E source \in SourceValues :
         video_url_map' = DictSet(video_url_map, video_ids[vidIdx], source)
    /\ vidSourceSeen' = vidSourceSeen \cup {vidIdx}
    /\ VideoAfterSource
    /\ UNCHANGED <<video_ids, vidSleeps>>
    /\ VidFrame

\* A response without 'source' leaves the retry loop at once.
VideoNoSource_Break ==
    /\ vidPc = "loop"
    /\ VideoRequestIssued
    /\ VideoAnswered("no source")
    /\ VideoNextId
    /\ UNCHANGED <<video_ids, video_url_map, vidSourceSeen, vidSleeps>>
    /\ VidFrame

\* Lines 144-149: a successful response without 'source': break on the last
\* attempt, otherwise the loop body ends and the next attempt follows at once.
VideoNoSource ==
    /\ vidPc = "loop"
    /\ VideoRequestIssued
    /\ VideoAnswered("no source")
    /\ IF vidAttempt = max_retries - 1 THEN VideoNextId ELSE VideoNextAttempt
    /\ UNCHANGED <<video_ids, video_url_map, vidSourceSeen, vidSleeps>>
    /\ VidFrame

\* The permission error handled as a request error is: backoff and retry.
VideoPermissionDenied_Retried ==
    /\ vidPc = "loop"
    /\ VideoRequestIssued
    /\ VideoAnswered("permission denied")
    /\ IF vidAttempt < max_retries - 1
       THEN /\ vidSleeps' = [vidSleeps EXCEPT
                               ![vidIdx] = Append(@, BackoffDelay(vidAttempt))]
            /\ VideoNextAttempt
       ELSE /\ vidSleeps' = vidSleeps
            /\ VideoNextId
    /\ UNCHANGED <<video_ids, video_url_map, vidSourceSeen>>
    /\ VidFrame

\* Lines 154-160: HTTP 400 whose JSON body has error.code == 10: break.
VideoPermissionDenied ==
    /\ vidPc = "loop"
    /\ VideoRequestIssued
    /\ VideoAnswered("permission denied")
    /\ VideoNextId
    /\ UNCHANGED <<video_ids, video_url_map, vidSourceSeen, vidSleeps>>
    /\ VidFrame

\* Lines 150-172: any other HTTP error.  A status of line 163's list sleeps the
\* backoff delay and retries unless this was the last attempt; every other
\* status, and the last attempt, reach the break of line 172.
VideoHttpErrorWith(status) ==
    /\ vidPc = "loop"
    /\ VideoRequestIssued
    /\ VideoAnswered("http error")
    /\ IF status \in RetriedStatuses /\ vidAttempt < max_retries - 1
       THEN /\ vidSleeps' = [vidSleeps EXCEPT
                               ![vidIdx] = Append(@, BackoffDelay(vidAttempt))]
            /\ VideoNextAttempt
       ELSE /\ vidSleeps' = vidSleeps
            /\ VideoNextId
    /\ UNCHANGED <<video_ids, video_url_map, vidSourceSeen>>
    /\ VidFrame

VideoHttpError == \E status \in HttpErrorStatuses : VideoHttpErrorWith(status)

\* Lines 174-183: a timeout or another request error: sleep the backoff delay
\* and retry unless this was the last attempt.
VideoRequestError ==
    /\ vidPc = "loop"
    /\ VideoRequestIssued
    /\ VideoAnswered("request error")
    /\ IF vidAttempt < max_retries - 1
       THEN /\ vidSleeps' = [vidSleeps EXCEPT
                               ![vidIdx] = Append(@, BackoffDelay(vidAttempt))]
            /\ VideoNextAttempt
       ELSE /\ vidSleeps' = vidSleeps
            /\ VideoNextId
    /\ UNCHANGED <<video_ids, video_url_map, vidSourceSeen>>
    /\ VidFrame

\* Lines 139-140: a decoded body that is no JSON object (null, a number): the
\* test 'source' in data raises TypeError, which neither except clause (150,
\* 174) catches; the exception leaves the resolver.
VideoMalformedBody ==
    /\ vidPc = "loop"
    /\ VideoRequestIssued
    /\ VideoAnswered("malformed")
    /\ vidPc' = MalformedPayloadPc
    /\ UNCHANGED <<video_ids, vidIdx, vidAttempt, video_url_map, vidSourceSeen, vidSleeps>>
    /\ VidFrame

\* Lines 154-160: HTTP 400 whose JSON body is no object, or whose 'error' is
\* none (a string, null): .get raises AttributeError inside the handler, where
\* only json.JSONDecodeError is caught; the exception leaves the resolver.
VideoMalformedError ==
    /\ vidPc = "loop"
    /\ VideoRequestIssued
    /\ VideoAnswered("malformed")
    /\ vidPc' = MalformedPayloadPc
    /\ UNCHANGED <<video_ids, vidIdx, vidAttempt, video_url_map, vidSourceSeen, vidSleeps>>
    /\ VidFrame

VidNext ==
    \/ FetchVideoStart
    \/ VideoSource
    \/ VideoNoSource
    \/ VideoPermissionDenied
    \/ VideoHttpError
    \/ VideoRequestError
    \/ VideoMalformedBody
    \/ VideoMalformedError

\* The resolver called with a list of distinct identifiers (line 523 passes
\* list(video_ids) of a set).
VidInit ==
    /\ video_ids \in DistinctSeqsUpTo(VideoIds, MaxVideos)
    /\ vidIdx = 1 /\ vidAttempt = 0 /\ video_url_map = EmptyDict /\ vidPc = "start"
    /\ vidRequests = [k \in DOMAIN video_ids |-> 0]
    /\ vidSourceSeen = {}
    /\ vidSleeps = [k \in DOMAIN video_ids |-> <<>>]
    /\ vidLast = [k |-> 0, attempt |-> 0, outcome |-> "none"]
    /\ ImgIdle /\ ListIdle /\ ads = <<>> /\ FetchIdle /\ ReconIdle /\ FlatIdle
    /\ CollectIdle /\ CallIdle /\ EnvSet

SpecVid == VidInit /\ [][VidNext]_vars

\* C2: the resolution maps never hold a null or empty marker: every value of
\* the image map and of the video map is a non-empty URL.
C2_NoNullMarker ==
    /\ \A h \in DOMAIN hash_url_map : Truthy(hash_url_map[h])
    /\ \A v \in DOMAIN video_url_map : Truthy(video_url_map[v])

\* The 5xx statuses.
ServerErrorStatuses == {status \in HttpErrorStatuses : status >= 500}

\* C25: a lookup answered with a server error of any 5xx status is retried
\* while the budget lasts: before the last attempt the resolver sleeps
\* base_delay * 2^attempt and makes the next attempt for the same identifier;
\* on the last attempt it does not sleep, leaves the identifier out of the map
\* and takes the next identifier.
C25_ServerErrorRetried ==
    [][\A status \in ServerErrorStatuses :
         VideoHttpErrorWith(status) =>
             IF vidAttempt < max_retries - 1
             THEN /\ vidSleeps'[vidIdx] = Append(vidSleeps[vidIdx], BackoffDelay(vidAttempt))
                  /\ vidIdx' = vidIdx /\ vidAttempt' = vidAttempt + 1
             ELSE /\ vidSleeps' = vidSleeps
                  /\ vidRequests'[vidIdx] = max_retries
                  /\ video_ids[vidIdx] \notin DOMAIN video_url_map'
                  /\ vidIdx' = vidIdx + 1]_vars

\* C27: a lookup answered with HTTP 400 and error code 10 abandons its
\* identifier at once, at whatever attempt: no backoff sleep follows, the
\* identifier is left out of the map, the resolver takes the next identifier (or
\* returns after the last), and no step ever issues a request or sleeps for an
\* identifier the resolver has left.
C27_PermissionDeniedAbandons ==
    [][/\ VideoPermissionDenied =>
            /\ vidSleeps' = vidSleeps
            /\ vidRequests'[vidIdx] = vidAttempt + 1
            /\ video_ids[vidIdx] \notin DOMAIN video_url_map'
            /\ vidIdx' = vidIdx + 1 /\ vidAttempt' = 0
            /\ vidPc' = IF vidIdx = Len(video_ids) THEN "done" ELSE "loop"
       /\ vidIdx' >= vidIdx
       /\ \A k \in DOMAIN video_ids :
            k < vidIdx => vidRequests'[k] = vidRequests[k] /\ vidSleeps'[k] = vidSleeps[k]]_vars

\* C27 witness: the first identifier of two was denied on its second attempt,
\* after one backoff, and the resolver is at the second identifier.
C27_Witness ==
    /\ vidLast = [k |-> 1, attempt |-> 1, outcome |-> "permission denied"]
    /\ Len(video_ids) = 2 /\ vidIdx = 2 /\ vidPc = "loop"
    /\ vidRequests = <<2, 0>>
    /\ vidSleeps = <<<<BackoffDelay(0)>>, <<>>>>
    /\ video_ids[1] \notin DOMAIN video_url_map

\* C28: after a successful response without a source field the attempt loop goes
\* on while the budget lasts, and on the last attempt the identifier is left with
\* exactly max_retries requests made and no entry in the map; after a response
\* with a source field, at whatever attempt, the identifier is in the map.
C28_NoSourceRunsOutBudget ==
    /\ vidLast.outcome = "no source" =>
          /\ vidRequests[vidLast.k] = vidLast.attempt + 1
          /\ video_ids[vidLast.k] \notin DOMAIN video_url_map
          /\ IF vidLast.attempt < max_retries - 1
             THEN vidIdx = vidLast.k /\ vidAttempt = vidLast.attempt + 1 /\ vidPc = "loop"
             ELSE vidIdx = vidLast.k + 1 /\ vidRequests[vidLast.k] = max_retries
    /\ vidLast.outcome = "source" =>
          /\ video_ids[vidLast.k] \in DOMAIN video_url_map
          /\ vidIdx = vidLast.k + 1

\* C28 witness: the three lookups of the first identifier were answered without
\* a source (no backoff was slept between them), and the identifier is not in
\* the map.
C28_Witness ==
    /\ vidLast = [k |-> 1, attempt |-> max_retries - 1, outcome |-> "no source"]
    /\ vidRequests[1] = max_retries
    /\ vidSleeps[1] = <<>>
    /\ vidIdx = 2
    /\ video_ids[1] \notin DOMAIN video_url_map

\* C10: each video identifier gets at most max_retries lookup requests, and at
\* least one by the time the resolver has ended; an identifier whose lookup
\* returned a source field is a key of the map and is never looked up again
\* (lookups are only issued for the identifier at vidIdx).
C10_VideoRequestBudget ==
    /\ \A k \in DOMAIN video_ids : vidRequests[k] <= max_retries
    /\ vidPc \in {"done", MalformedPayloadPc} =>
           \A k \in DOMAIN video_ids : vidRequests[k] >= 1
    /\ \A k \in vidSourceSeen :
         /\ video_ids[k] \in DOMAIN video_url_map
         /\ vidPc \in {"done", MalformedPayloadPc} \/ k < vidIdx

\* The resolver under the response outcomes of a well-formed service: a
\* source field, no source field, permission denied, another HTTP error, a
\* timeout or connection error.  Every request returns (timeout=30, line 137)
\* and the loops run on their own, so a step that can be taken is taken.
VidListedNext ==
    \/ FetchVideoStart
    \/ VideoSource
    \/ VideoNoSource
    \/ VideoPermissionDenied
    \/ VideoHttpError
    \/ VideoRequestError

SpecVidListed == VidInit /\ [][VidListedNext]_vars /\ WF_vars(VidListedNext)

RECURSIVE safe_get(_, _, _)
safe_get(data_dict, key_path, default) ==
    IF key_path = <<>> THEN data_dict
    ELSE IF Head(key_path) \in DOMAIN data_dict
         THEN safe_get(data_dict[Head(key_path)], Tail(key_path), default)
         ELSE default

\* determine_format_category with the carousel check ahead of the video check.
determine_format_category_CarouselFirst(ad_creative) ==
    IF ~NonEmpty(ad_creative) THEN "Unknown"
    ELSE IF NonEmpty(safe_get(ad_creative,
                <<"object_story_spec", "link_data", "child_attachments">>, <<>>))
         THEN "Carousel"
    ELSE IF \/ NonEmpty(safe_get(ad_creative, <<"asset_feed_spec", "videos">>, <<>>))
            \/ Truthy(safe_get(ad_creative,
                               <<"object_story_spec", "video_data", "video_id">>, None))
         THEN "Video/Reel"
    ELSE IF \/ Truthy(safe_get(ad_creative, <<"image_url">>, None))
            \/ NonEmpty(safe_get(ad_creative, <<"asset_feed_spec", "images">>, <<>>))
            \/ Truthy(safe_get(ad_creative, <<"image_hash">>, None))
            \/ Truthy(safe_get(ad_creative, <<"thumbnail_url">>, None))
            \/ NonEmpty(safe_get(ad_creative, <<"object_story_spec", "photo_data">>, <<>>))
         THEN "Static Image"
    ELSE "Unknown"

\* The ordered checks of determine_format_category.  String fields are tested
\* with Truthy, list and dictionary fields with NonEmpty (an absent one reads as
\* empty, which is as falsy as the None the script's default gives).
determine_format_category(ad_creative) ==
    IF ~NonEmpty(ad_creative) THEN "Unknown"
    ELSE IF \/ NonEmpty(safe_get(ad_creative, <<"asset_feed_spec", "videos">>, <<>>))
            \/ Truthy(safe_get(ad_creative,
                               <<"object_story_spec", "video_data", "video_id">>, None))
         THEN "Video/Reel"
    ELSE IF NonEmpty(safe_get(ad_creative,
                <<"object_story_spec", "link_data", "child_attachments">>, <<>>))
         THEN "Carousel"
    ELSE IF \/ Truthy(safe_get(ad_creative, <<"image_url">>, None))
            \/ NonEmpty(safe_get(ad_creative, <<"asset_feed_spec", "images">>, <<>>))
            \/ Truthy(safe_get(ad_creative, <<"image_hash">>, None))
            \/ Truthy(safe_get(ad_creative, <<"thumbnail_url">>, None))
            \/ NonEmpty(safe_get(ad_creative, <<"object_story_spec", "photo_data">>, <<>>))
         THEN "Static Image"
    ELSE "Unknown"

(***************************************************************************)
(* The data the remote API returns                                         *)
(***************************************************************************)
\* Ads as the listing returns them (fields of lines 241-246); the last has no id.
BasicAds ==
    { [id |-> "a1", campaign |-> [id |-> "c1", name |-> "C1"],
                    adset |-> [id |-> "s1", name |-> "S1"]],
      [id |-> "a2", campaign |-> [id |-> "c1", name |-> "C1b"],
                    adset |-> [id |-> "s2", name |-> "S2"]],
      [name |-> "no id"] }

\* Creatives as the per-ad fetch returns them (fields of lines 301-311): the
\* creative variants of the data model, with and without the URL fields the
\* fetch itself asks for (image_url, photo_data.url).
Creatives ==
    { [title |-> "t"],
      [image_hash |-> "h1"],
      [image_hash |-> "h1", image_url |-> "https://x/old.png"],
      [thumbnail_url |-> "https://x/old.png"],
      [object_story_spec |-> [photo_data |-> [image_hash |-> "h2"]]],
      [object_story_spec |-> [photo_data |-> [image_hash |-> "h2", url |-> "https://x/old.png"]]],
      [object_story_spec |-> [photo_data |-> [url |-> "https://x/old.png"]]],
      [object_story_spec |->
          [link_data |-> [link |-> "l",
                          child_attachments |-> <<[image_hash |-> "h1"],
                                                  [image_hash |-> "h2"]>>]]],
      [object_story_spec |->
          [link_data |-> [child_attachments |-> <<[link |-> "l"],
                                                  [image_hash |-> "h1"]>>]]],
      [asset_feed_spec |-> [videos |-> <<[video_id |-> "v1"]>>]],
      [asset_feed_spec |-> [images |-> <<[url |-> "https://x/old.png"]>>]],
      [image_hash |-> "h2",
       asset_feed_spec |-> [videos |-> <<[video_id |-> "v1"], [video_id |-> "v2"]>>]],
      [object_story_spec |-> [video_data |-> [video_id |-> "v2"]]],
      [object_story_spec |->
          [video_data |-> [video_id |-> "v1"],
           link_data |-> [child_attachments |-> <<[image_hash |-> "h1"]>>]]] }

\* The creatives the model's per-ad fetch returns: one of each format category
\* and one that carries the URL field the fetch asks for.
FetchedCreatives ==
    {c \in Creatives :
        \/ DOMAIN c \in {{"title"}, {"image_hash", "image_url"}, {"asset_feed_spec"}}
        \/ /\ DOMAIN c = {"object_story_spec"}
           /\ DOMAIN c.object_story_spec \in {{"link_data"}, {"video_data", "link_data"}}}

\* Values of an insights entry: JSON numbers, JSON strings (as their characters)
\* and JSON null.
Num(n) == [t |-> "num", n |-> n]
Text(chars) == [t |-> "str", s |-> chars]
Null == [t |-> "null"]

\* Insights entries as the per-ad fetch returns them.
FetchedInsights ==
    { [clicks |-> Text(<<"1", "0">>)],
      [spend |-> Text(<<"1", ".", "5">>), impressions |-> Text(<<"2", "0">>)] }

(***************************************************************************)
(* Step 1: the ad listing loop (get_data.py 254-285)                       *)
(***************************************************************************)
\* Bounds: pages the remote listing has, ads per page, and the count at which
\* the model stops counting the requests of one page.
MaxPages == 3
MaxPageAds == 1
MaxListTries == 5

ListFrame == UNCHANGED <<imgVars, vidVars, fetchVars, reconVars, flatVars, collectVars, callVars, envVars>>

\* One more request issued for the current page (line 261).
ListRequestIssued == listTries' = Min(listTries + 1, MaxListTries)

\* Lines 261-262, 278-283: the page is fetched; its ads are appended and the
\* loop follows paging.next, or ends when there is none.
ListPageOk ==
    /\ listPc = "loop"
    /\ \E page_ads \in SeqsUpTo(BasicAds, MaxPageAds) : ads' = ads \o page_ads
    /\ \E hasNext \in BOOLEAN :
         /\ hasNext => listPage < MaxPages
         /\ listUrl' = IF hasNext THEN listUrl + 1 ELSE 0
         /\ listPc' = IF hasNext THEN "loop" ELSE "done"
    /\ listPage' = listPage + 1
    /\ listTries' = 0
    /\ ListFrame

\* Lines 263-268: a 500/502/503/504: sleep(1) and continue, the same page again,
\* with nothing counting the tries.
ListServerError ==
    /\ listPc = "loop"
    /\ \E status \in RetriedStatuses : ListRequestIssued
    /\ UNCHANGED <<listUrl, listPage, listPc, ads>>
    /\ ListFrame

\* Lines 269-271: any other HTTP error: break.
ListOtherHttpError ==
    /\ listPc = "loop"
    /\ \E status \in HttpErrorStatuses \ RetriedStatuses : ListRequestIssued
    /\ listPc' = "done"
    /\ UNCHANGED <<listUrl, listPage, ads>>
    /\ ListFrame

\* Lines 272-276: a timeout or another request error: sleep(1) and continue.
ListRequestError ==
    /\ listPc = "loop"
    /\ ListRequestIssued
    /\ UNCHANGED <<listUrl, listPage, listPc, ads>>
    /\ ListFrame

ListNext ==
    \/ ListPageOk
    \/ ListServerError
    \/ ListOtherHttpError
    \/ ListRequestError

\* Lines 248-257: the first page's url, page = 1, no ads yet.
ListInit ==
    /\ listUrl = 1 /\ listPage = 1 /\ listTries = 0 /\ listPc = "loop"
    /\ ads = <<>>
    /\ ImgIdle /\ VidIdle /\ FetchIdle /\ ReconIdle /\ FlatIdle
    /\ CollectIdle /\ CallIdle /\ EnvSet

SpecList == ListInit /\ [][ListNext]_vars

\* Python's int() on text.
Digits == <<"0", "1", "2", "3", "4", "5", "6", "7", "8", "9">>
IsDigit(c) == \E d \in DOMAIN Digits : Digits[d] = c
DigitValue(c) == (CHOOSE d \in DOMAIN Digits : Digits[d] = c) - 1

\* The number a string of digits denotes.
RECURSIVE DigitsValue(_)
DigitsValue(chars) ==
    IF chars = <<>> THEN 0
    ELSE 10 * DigitsValue(SubSeq(chars, 1, Len(chars) - 1)) + DigitValue(chars[Len(chars)])

\* A parse result: the number num / 10^scale, or the exception raised.
Parsed(num, scale) == [ok |-> TRUE, num |-> num, scale |-> scale]
Raises(exception) == [ok |-> FALSE, err |-> exception]

\* num / 10^scale without trailing zeros after the point: 1.50 is 1.5.
RECURSIVE Normal(_, _)
Normal(num, scale) ==
    IF scale > 0 /\ num % 10 = 0 THEN Normal(num \div 10, scale - 1) ELSE Parsed(num, scale)

\* int(text): a non-empty string of digits after an optional sign, else
\* ValueError.
PyIntOfText(chars) ==
    LET signed == chars # <<>> /\ chars[1] \in {"-", "+"}
        digits == IF signed THEN Tail(chars) ELSE chars
    IN IF digits # <<>> /\ \A k \in DOMAIN digits : IsDigit(digits[k])
       THEN Parsed(IF signed /\ chars[1] = "-" THEN 0 - DigitsValue(digits)
                   ELSE DigitsValue(digits), 0)
       ELSE Raises("ValueError")

(***************************************************************************)
(* Steps 1.5 and 1.75: the per-ad creative and insights fetch loops        *)
(* (get_data.py 292-457)                                                   *)
(***************************************************************************)
\* max_retries of lines 319 and 403.
fetch_max_retries == 3

\* Line 343 / 426: the wait when the response has no Retry-After header.
default_retry_after == 60

\* Bound: the number of ads of a run.
MaxAds == 2

\* The Retry-After header of a 429 response: absent, a number of seconds, or
\* an HTTP date.
RetryAfterHeaders ==
    {Null, Text(<<"5">>), Text(<<"W", "e", "d", ",", " ", "2", "1", " ", "O", "c", "t">>)}

\* headers.get('Retry-After', 60), then int(...): the seconds to wait, or the
\* ValueError of int() on text that is no integer.
RetryAfterWait(header) ==
    IF header = Null THEN Parsed(default_retry_after, 0) ELSE PyIntOfText(header.s)

FetchFrame == UNCHANGED <<imgVars, vidVars, listVars, reconVars, flatVars, collectVars, callVars, envVars>>

\* The ad the loop is at, and its id (ad.get('id')).
FetchAd == ads[fetchIdx]
FetchAdId == DictGet(FetchAd, "id", None)

\* A retry loop of phase pc is running for an ad that has an id.
FetchAt(pc) == fetchPc = pc /\ fetchIdx <= Len(ads) /\ Truthy(FetchAdId)

\* One more request issued for the ad (lines 322, 406).
FetchRequestIssued == fetchReqs' = [fetchReqs EXCEPT ![fetchIdx] = @ + 1]

\* The retry loop of the ad is left (break, or range(max_retries) is exhausted):
\* the for loop over ads takes the next ad.
FetchNextAd ==
    /\ fetchIdx' = fetchIdx + 1
    /\ fetchAttempt' = 0
    /\ fetch429s' = 0
    /\ UNCHANGED fetchPc

\* continue in "for attempt in range(max_retries)": the loop takes the next
\* value of attempt, and ends when the range is exhausted.
FetchContinue ==
    IF fetchAttempt + 1 < fetch_max_retries
    THEN /\ fetchAttempt' = fetchAttempt + 1
         /\ UNCHANGED <<fetchIdx, fetchPc>>
    ELSE /\ fetchIdx' = fetchIdx + 1
         /\ fetchAttempt' = 0
         /\ UNCHANGED fetchPc

\* Lines 342-346 / 425-429: what follows the rate-limit wait.
FetchAfterRateLimit ==
    /\ FetchContinue
    /\ fetch429s' = IF fetchAttempt + 1 < fetch_max_retries THEN fetch429s + 1 ELSE 0

\* Lines 297-299 / 390-392: an ad without an id is skipped.
FetchSkipNoId ==
    /\ fetchPc \in {"creative", "insights"}
    /\ fetchIdx <= Len(ads)
    /\ ~Truthy(FetchAdId)
    /\ FetchNextAd
    /\ UNCHANGED <<ads, all_creatives, all_insights, fetchReqs, fetchLast>>
    /\ FetchFrame

\* Lines 322-333, 337: the response carries a creative; it is stored, attached
\* to the ad and classified.
CreativeFetched ==
    /\ FetchAt("creative")
    /\ FetchRequestIssued
    /\ \E fetched_creative \in FetchedCreatives :
         /\ all_creatives' = DictSet(all_creatives, FetchAdId, fetched_creative)
         /\ ads' = [ads EXCEPT ![fetchIdx] =
                      DictSet(DictSet(@, "creative", fetched_creative),
                              "format_category",
                              determine_format_category(fetched_creative))]
    /\ fetchLast' = [resp |-> "ok", slept |-> 0]
    /\ FetchNextAd
    /\ UNCHANGED all_insights
    /\ FetchFrame

\* Lines 334-337: the response carries no creative (or an empty one): only
\* all_creatives gets an entry; the ad itself is left as it was.
CreativeMissing ==
    /\ FetchAt("creative")
    /\ FetchRequestIssued
    /\ all_creatives' = DictSet(all_creatives, FetchAdId, EmptyDict)
    /\ fetchLast' = [resp |-> "ok", slept |-> 0]
    /\ FetchNextAd
    /\ UNCHANGED <<ads, all_insights>>
    /\ FetchFrame

\* Lines 354-358 and 368-371: the failure branch of the creative fetch.
CreativeFailed ==
    /\ all_creatives' = DictSet(all_creatives, FetchAdId, EmptyDict)
    /\ ads' = [ads EXCEPT ![fetchIdx] =
                 DictSet(DictSet(@, "creative", EmptyDict), "format_category", "Unknown")]

\* Lines 416-417, 438-439 and 451-452: no insights for the ad.
InsightsFailed ==
    /\ all_insights' = DictSet(all_insights, FetchAdId, EmptyDict)
    /\ ads' = [ads EXCEPT ![fetchIdx] =
                 DictSet(@, "insights", [data |-> <<EmptyDict>>])]

\* The failure branch of the phase that is running.
FetchFailed ==
    IF fetchPc = "creative"
    THEN CreativeFailed /\ UNCHANGED all_insights
    ELSE InsightsFailed /\ UNCHANGED all_creatives

\* Lines 342-346 / 425-429: a 429: sleep for Retry-After (60 without the
\* header), then continue.  int(retry_after) is evaluated inside the except
\* clause: its ValueError on a header that is no integer leaves the script.
FetchRateLimited ==
    /\ FetchAt("creative") \/ FetchAt("insights")
    /\ FetchRequestIssued
    /\ \E header \in RetryAfterHeaders :
         LET wait == RetryAfterWait(header)
         IN IF wait.ok
            THEN /\ fetchLast' = [resp |-> "429", slept |-> wait.num]
                 /\ FetchAfterRateLimit
            ELSE /\ fetchLast' = [resp |-> "429", slept |-> 0]
                 /\ fetchPc' = "raised"
                 /\ UNCHANGED <<fetchIdx, fetchAttempt, fetch429s>>
    /\ UNCHANGED <<ads, all_creatives, all_insights>>
    /\ FetchFrame

\* Lines 324-325 / 408-410 on a decoded body that is no JSON object (null, a
\* number, a list): .get raises AttributeError, 'data' in ... raises TypeError;
\* neither except clause catches it and the exception leaves the script.
FetchMalformedBody ==
    /\ FetchAt("creative") \/ FetchAt("insights")
    /\ FetchRequestIssued
    /\ fetchLast' = [resp |-> "malformed", slept |-> 0]
    /\ fetchPc' = MalformedPayloadPc
    /\ UNCHANGED <<ads, fetchIdx, fetchAttempt, all_creatives, all_insights, fetch429s>>
    /\ FetchFrame

\* Lines 347-358 / 430-440: a 500/502/503/504: sleep 1 * 2**attempt and continue
\* unless this is the last attempt, which takes the failure branch.
FetchServerError ==
    /\ FetchAt("creative") \/ FetchAt("insights")
    /\ FetchRequestIssued
    /\ \E status \in RetriedStatuses :
         IF fetchAttempt < fetch_max_retries - 1
         THEN /\ fetchLast' = [resp |-> "5xx", slept |-> Pow2(fetchAttempt)]
              /\ FetchContinue
              /\ UNCHANGED <<ads, all_creatives, all_insights, fetch429s>>
         ELSE /\ fetchLast' = [resp |-> "5xx", slept |-> 0]
              /\ FetchFailed
              /\ FetchNextAd
    /\ FetchFrame

\* Lines 353-358 / 436-440: any other HTTP error takes the failure branch at once.
FetchOtherHttpError ==
    /\ FetchAt("creative") \/ FetchAt("insights")
    /\ FetchRequestIssued
    /\ \E status \in HttpErrorStatuses \ (RetriedStatuses \cup {429}) :
         fetchLast' = [resp |-> "http_error", slept |-> 0]
    /\ FetchFailed
    /\ FetchNextAd
    /\ FetchFrame

\* Lines 360-372 / 442-453: a timeout or another request error: sleep
\* 1 * 2**attempt and continue, or the failure branch on the last attempt.
FetchRequestError ==
    /\ FetchAt("creative") \/ FetchAt("insights")
    /\ FetchRequestIssued
    /\ IF fetchAttempt < fetch_max_retries - 1
       THEN /\ fetchLast' = [resp |-> "request_error", slept |-> Pow2(fetchAttempt)]
            /\ FetchContinue
            /\ UNCHANGED <<ads, all_creatives, all_insights, fetch429s>>
       ELSE /\ fetchLast' = [resp |-> "request_error", slept |-> 0]
            /\ FetchFailed
            /\ FetchNextAd
    /\ FetchFrame

\* Lines 406-414, 420: the response's data list is not empty; its first entry
\* is stored and attached to the ad.
InsightsFetched ==
    /\ FetchAt("insights")
    /\ FetchRequestIssued
    /\ \E entry \in FetchedInsights :
         /\ all_insights' = DictSet(all_insights, FetchAdId, entry)
         /\ ads' = [ads EXCEPT ![fetchIdx] = DictSet(@, "insights", [data |-> <<entry>>])]
    /\ fetchLast' = [resp |-> "ok", slept |-> 0]
    /\ FetchNextAd
    /\ UNCHANGED all_creatives
    /\ FetchFrame

\* Lines 415-420: the response has no data: the ad gets the empty entry.
InsightsEmpty ==
    /\ FetchAt("insights")
    /\ FetchRequestIssued
    /\ InsightsFailed
    /\ fetchLast' = [resp |-> "ok", slept |-> 0]
    /\ FetchNextAd
    /\ UNCHANGED all_creatives
    /\ FetchFrame

\* Lines 376-389: the creative loop has gone through ads; the insights loop starts.
CreativePhaseEnd ==
    /\ fetchPc = "creative"
    /\ fetchIdx > Len(ads)
    /\ fetchPc' = "insights"
    /\ fetchIdx' = 1
    /\ fetchReqs' = [k \in DOMAIN ads |-> 0]
    /\ UNCHANGED <<ads, fetchAttempt, all_creatives, all_insights, fetch429s, fetchLast>>
    /\ FetchFrame

\* Line 457: the insights loop has gone through ads.
InsightsPhaseEnd ==
    /\ fetchPc = "insights"
    /\ fetchIdx > Len(ads)
    /\ fetchPc' = "done"
    /\ UNCHANGED <<ads, fetchIdx, fetchAttempt, all_creatives, all_insights,
                   fetchReqs, fetch429s, fetchLast>>
    /\ FetchFrame

FetchNext ==
    \/ FetchSkipNoId
    \/ CreativeFetched
    \/ CreativeMissing
    \/ FetchRateLimited
    \/ FetchMalformedBody
    \/ FetchServerError
    \/ FetchOtherHttpError
    \/ FetchRequestError
    \/ InsightsFetched
    \/ InsightsEmpty
    \/ CreativePhaseEnd
    \/ InsightsPhaseEnd

\* The ids of the ads of a list that have one.
AdIds(list) == {DictGet(list[k], "id", None) : k \in DOMAIN list} \ {None}

\* Lists of listed ads in which no id occurs twice.
AdLists ==
    {list \in SeqsUpTo(BasicAds, MaxAds) :
        \A a, b \in DOMAIN list :
           (a # b /\ "id" \in DOMAIN list[a] /\ "id" \in DOMAIN list[b])
              => list[a].id # list[b].id}

\* Line 292: the listing has ended with some list of ads; the creative loop starts.
FetchInit ==
    /\ ads \in AdLists
    /\ fetchPc = "creative" /\ fetchIdx = 1 /\ fetchAttempt = 0
    /\ all_creatives = EmptyDict /\ all_insights = EmptyDict
    /\ fetchReqs = [k \in DOMAIN ads |-> 0]
    /\ fetch429s = 0
    /\ fetchLast = [resp |-> "none", slept |-> 0]
    /\ ImgIdle /\ VidIdle /\ ListIdle /\ ReconIdle /\ FlatIdle
    /\ CollectIdle /\ CallIdle /\ EnvSet

SpecFetch == FetchInit /\ [][FetchNext]_vars

\* C3: every retry is bounded by the fixed cap: no item (a listing page, a
\* per-ad creative or insights fetch, a video identifier) has more requests
\* issued for it than the retry cap before the run moves on.
C3_RetriesCapped ==
    /\ listTries <= fetch_max_retries
    /\ \A k \in DOMAIN fetchReqs : fetchReqs[k] <= fetch_max_retries
    /\ \A k \in DOMAIN vidRequests : vidRequests[k] <= max_retries

\* C4: in the per-ad creative and insights fetch a 429 response is followed by
\* a wait of the Retry-After duration (60 without the header) and the request
\* is retried at the same attempt index, for the same ad.
C4_RateLimitKeepsAttempt ==
    [][FetchRateLimited =>
         /\ fetchLast'.slept \in {RetryAfterWait(h).num :
                                      h \in {x \in RetryAfterHeaders : RetryAfterWait(x).ok}}
         /\ fetchAttempt' = fetchAttempt
         /\ fetchIdx' = fetchIdx]_vars

\* C31: once the creative-fetch phase has finished every ad that has an id has an
\* entry in all_creatives, and once the insights-fetch phase has finished every
\* such ad has an entry in all_insights and an 'insights' field, so that the
\* sizes of both maps (the reported "attempted" counts) equal the number of ads
\* with an id.
C31_EveryAdHasOutcome ==
    /\ fetchPc \in {"insights", "done"} =>
          /\ \A k \in DOMAIN ads :
                Truthy(DictGet(ads[k], "id", None)) => ads[k].id \in DOMAIN all_creatives
          /\ Cardinality(DOMAIN all_creatives) = Cardinality(AdIds(ads))
    /\ fetchPc = "done" =>
          /\ \A k \in DOMAIN ads :
                Truthy(DictGet(ads[k], "id", None)) =>
                    /\ ads[k].id \in DOMAIN all_insights
                    /\ "insights" \in DOMAIN ads[k]
          /\ Cardinality(DOMAIN all_insights) = Cardinality(AdIds(ads))

\* C32: in each phase no ad gets more than 3 requests, whatever the responses,
\* and a retry loop is only ever left for the next ad: the fetch loops never end
\* by an exception that leaves the remaining ads unprocessed.
C32_FetchBudgetAndProgress ==
    /\ \A k \in DOMAIN fetchReqs : fetchReqs[k] <= fetch_max_retries
    /\ fetchPc # "raised"

\* C5: once the creative-fetch phase has finished, the format_category stored
\* on every ad that has an id is determine_format_category of the creative
\* attached to the ad (Unknown for a missing or empty creative).
C5_CategoryMatchesCreative ==
    fetchPc \in {"insights", "done"} =>
        \A k \in DOMAIN ads :
            Truthy(DictGet(ads[k], "id", None)) =>
                DictGet(ads[k], "format_category", None)
                    = determine_format_category(DictGet(ads[k], "creative", EmptyDict))

(***************************************************************************)
(* download_media (get_data.py 188-227)                                    *)
(***************************************************************************)
\* Lines 199-206: the extension of the URL's path, else '.mp4' when the URL
\* contains 'video', 'mp4' or 'mov', else '.jpg'; for the URLs of the model.
MediaExt(url) ==
    CASE url = "https://x/img.jpg" -> ".jpg"
      [] url = "https://x/old.png" -> ".png"
      [] url = "https://x/video" -> ".mp4"
      [] OTHER -> ".jpg"

\* Lines 209-210: media_dir/{prefix}{ad_id}_{identifier}{ext}, as its parts.
MediaPath(url, ad_id, identifier, prefix) == <<prefix, ad_id, identifier, MediaExt(url)>>

\* What a download request can end in: the file written in full; an error
\* before the file is opened (request error, HTTP error); an error while the
\* chunks are written, which leaves the file opened at line 220 behind.
DownloadOutcomes == {"ok", "failed", "partial"}

\* The file a failed chunk loop leaves behind.
PartialFile == "partial"

\* download_media returning the path whether or not the download succeeded.
download_media_PathOnFailure(url, ad_id, identifier, prefix, files, outcome) ==
    IF ~Truthy(url)
    THEN [path |-> None, disk |-> files, requested |-> <<>>]
    ELSE LET filepath == MediaPath(url, ad_id, identifier, prefix) IN
         IF filepath \in DOMAIN files
         THEN [path |-> filepath, disk |-> files, requested |-> <<>>]
         ELSE CASE outcome = "ok" ->
                     [path |-> filepath, disk |-> DictSet(files, filepath, "complete"),
                      requested |-> <<filepath>>]
                [] outcome = "partial" ->
                     [path |-> filepath, disk |-> DictSet(files, filepath, PartialFile),
                      requested |-> <<filepath>>]
                [] OTHER ->
                     [path |-> filepath, disk |-> files, requested |-> <<filepath>>]

\* download_media without the test of line 213: the request is issued whether
\* or not the file exists.
download_media_NoExistsTest(url, ad_id, identifier, prefix, files, outcome) ==
    IF ~Truthy(url)
    THEN [path |-> None, disk |-> files, requested |-> <<>>]
    ELSE LET filepath == MediaPath(url, ad_id, identifier, prefix) IN
         CASE outcome = "ok" ->
                [path |-> filepath, disk |-> DictSet(files, filepath, "complete"),
                 requested |-> <<filepath>>]
           [] outcome = "partial" ->
                [path |-> None, disk |-> DictSet(files, filepath, PartialFile),
                 requested |-> <<filepath>>]
           [] OTHER ->
                [path |-> None, disk |-> files, requested |-> <<filepath>>]

\* download_media: [path, disk, requested] for one outcome of the request it
\* may issue.  path is None when the function returns None.
download_media(url, ad_id, identifier, prefix, files, outcome) ==
    IF ~Truthy(url)
    THEN [path |-> None, disk |-> files, requested |-> <<>>]
    ELSE LET filepath == MediaPath(url, ad_id, identifier, prefix) IN
         IF filepath \in DOMAIN files
         THEN [path |-> filepath, disk |-> files, requested |-> <<>>]
         ELSE CASE outcome = "ok" ->
                     [path |-> filepath, disk |-> DictSet(files, filepath, "complete"),
                      requested |-> <<filepath>>]
                [] outcome = "partial" ->
                     [path |-> None, disk |-> DictSet(files, filepath, PartialFile),
                      requested |-> <<filepath>>]
                [] OTHER ->
                     [path |-> None, disk |-> files, requested |-> <<filepath>>]

(***************************************************************************)
(* Step 4: reconciliation (get_data.py 536-624)                            *)
(***************************************************************************)
\* The numbers of a set in increasing order: the order enumerate() visits them.
RECURSIVE Ascending(_)
Ascending(S) ==
    IF S = {} THEN <<>>
    ELSE LET least == CHOOSE x \in S : \A y \in S : x <= y
         IN <<least>> \o Ascending(S \ {least})

HasImageHash(child) == Truthy(DictGet(child, "image_hash", None))
HasVideoId(v) == Truthy(DictGet(v, "video_id", None))

ChildrenOf(creative) ==
    safe_get(creative, <<"object_story_spec", "link_data", "child_attachments">>, <<>>)
AssetVideosOf(creative) == safe_get(creative, <<"asset_feed_spec", "videos">>, <<>>)
PhotoDataOf(creative) == safe_get(creative, <<"object_story_spec", "photo_data">>, EmptyDict)
VideoDataOf(creative) == safe_get(creative, <<"object_story_spec", "video_data">>, EmptyDict)

\* Lines 562-564: the carousel children that carry an image_hash.
ChildIndexes(creative) ==
    Ascending({k \in DOMAIN ChildrenOf(creative) : HasImageHash(ChildrenOf(creative)[k])})

\* Lines 595-597: the asset-feed videos that carry a video_id.
AssetIndexes(creative) ==
    Ascending({k \in DOMAIN AssetVideosOf(creative) : HasVideoId(AssetVideosOf(creative)[k])})

\* The reference locations of a creative, in the order Step 4 visits them, under
\* the guards of lines 545, 564, 579, 597 and 612.
Locations(creative) ==
    (IF Truthy(safe_get(creative, <<"image_hash">>, None))
     THEN <<[kind |-> "primary", k |-> 0]>> ELSE <<>>)
    \o [n \in DOMAIN ChildIndexes(creative) |->
          [kind |-> "child", k |-> ChildIndexes(creative)[n]]]
    \o (IF NonEmpty(PhotoDataOf(creative)) /\ "image_hash" \in DOMAIN PhotoDataOf(creative)
        THEN <<[kind |-> "photo", k |-> 0]>> ELSE <<>>)
    \o [n \in DOMAIN AssetIndexes(creative) |->
          [kind |-> "asset", k |-> AssetIndexes(creative)[n]]]
    \o (IF NonEmpty(VideoDataOf(creative)) /\ "video_id" \in DOMAIN VideoDataOf(creative)
        THEN <<[kind |-> "video_data", k |-> 0]>> ELSE <<>>)

\* The dictionary that holds the reference of a location and gets its sibling.
HolderAt(creative, loc) ==
    CASE loc.kind = "primary" -> creative
      [] loc.kind = "child" -> ChildrenOf(creative)[loc.k]
      [] loc.kind = "photo" -> PhotoDataOf(creative)
      [] loc.kind = "asset" -> AssetVideosOf(creative)[loc.k]
      [] loc.kind = "video_data" -> VideoDataOf(creative)

\* The raw reference of a location.
RefAt(creative, loc) ==
    IF loc.kind \in {"primary", "child", "photo"}
    THEN HolderAt(creative, loc).image_hash
    ELSE HolderAt(creative, loc).video_id

\* The field the resolved URL of a location is written to (lines 547, 566, 582,
\* 599, 615).
SiblingField(loc) ==
    CASE loc.kind = "primary" -> "image_url"
      [] loc.kind = "child" -> "image_url"
      [] loc.kind = "photo" -> "url"
      [] loc.kind = "asset" -> "source_url"
      [] loc.kind = "video_data" -> "video_url"

\* The field the local path of a location is written to.
LocalField(loc) ==
    IF loc.kind \in {"primary", "child", "photo"}
    THEN "local_image_path" ELSE "local_video_path"

\* The prefix of the location's file name (lines 549, 568, 584, 601, 617).
MediaPrefix(loc) ==
    CASE loc.kind = "primary" -> "img_"
      [] loc.kind = "child" -> "carousel_"
      [] loc.kind = "photo" -> "photo_"
      [] loc.kind = "asset" -> "video_asset_"
      [] loc.kind = "video_data" -> "video_"

\* The identifier of the location's file name: the reference, and for a
\* carousel child f"{child_hash}_c{idx}" with the child's 0-based index.
MediaIdentifier(creative, loc) ==
    IF loc.kind = "child"
    THEN <<RefAt(creative, loc), "_c", loc.k - 1>>
    ELSE <<RefAt(creative, loc)>>

\* The map a location's reference is looked up in.
MapFor(loc) ==
    IF loc.kind \in {"primary", "child", "photo"} THEN hash_url_map ELSE video_url_map

\* holder[field] = value at a location, in place.
SetAt(creative, loc, field, value) ==
    CASE loc.kind = "primary" -> DictSet(creative, field, value)
      [] loc.kind = "child" ->
           [creative EXCEPT
              !["object_story_spec"]["link_data"]["child_attachments"][loc.k] =
                  DictSet(@, field, value)]
      [] loc.kind = "photo" ->
           [creative EXCEPT !["object_story_spec"]["photo_data"] = DictSet(@, field, value)]
      [] loc.kind = "asset" ->
           [creative EXCEPT !["asset_feed_spec"]["videos"][loc.k] = DictSet(@, field, value)]
      [] loc.kind = "video_data" ->
           [creative EXCEPT !["object_story_spec"]["video_data"] = DictSet(@, field, value)]

\* The injection with the photo_data location left out.
InjectUrl_PhotoSkipped(creative, loc, url) ==
    IF loc.kind = "photo" THEN creative
    ELSE SetAt(creative, loc, SiblingField(loc), url)

\* The injection of lines 547, 566, 582, 599, 615: the resolved URL is written
\* to the location's sibling field.
InjectUrl(creative, loc, url) == SetAt(creative, loc, SiblingField(loc), url)

ReconFrame == UNCHANGED <<imgVars, vidVars, listVars, fetchVars, flatVars, collectVars, callVars, envVars>>

ReconAd == ads[reconIdx]
ReconCreative == DictGet(ReconAd, "creative", EmptyDict)

\* Lines 536-539, and the end of the loop body: the next ad.
ReconNextAd ==
    /\ reconPc = "loop"
    /\ reconIdx <= Len(ads)
    /\ \/ ~Truthy(DictGet(ReconAd, "id", None))
       \/ reconLoc > Len(Locations(ReconCreative))
    /\ reconIdx' = reconIdx + 1
    /\ reconLoc' = 1
    /\ UNCHANGED <<ads, reconPc, fetchedAds, disk, downloads>>
    /\ ReconFrame

\* One reference location of the ad whose reference the map resolves: the URL
\* is injected, the media downloaded, and the local path recorded when
\* download_media returns one.
ReconResolved ==
    /\ reconPc = "loop"
    /\ reconIdx <= Len(ads)
    /\ Truthy(DictGet(ReconAd, "id", None))
    /\ reconLoc <= Len(Locations(ReconCreative))
    /\ LET loc == Locations(ReconCreative)[reconLoc]
           ref == RefAt(ReconCreative, loc)
       IN /\ ref \in DOMAIN MapFor(loc)
          /\ \E outcome \in DownloadOutcomes :
               LET injected == InjectUrl(ReconCreative, loc, MapFor(loc)[ref])
                   got == download_media(MapFor(loc)[ref], ReconAd.id,
                                         MediaIdentifier(ReconCreative, loc),
                                         MediaPrefix(loc), disk, outcome)
                   final == IF got.path # None
                            THEN SetAt(injected, loc, LocalField(loc), got.path)
                            ELSE injected
               IN /\ ads' = [ads EXCEPT ![reconIdx] = DictSet(@, "creative", final)]
                  /\ disk' = got.disk
                  /\ downloads' = downloads \o got.requested
    /\ reconLoc' = reconLoc + 1
    /\ UNCHANGED <<reconPc, reconIdx, fetchedAds>>
    /\ ReconFrame

\* One reference location whose reference is not a key of the map (lines
\* 555-557 and their like): only the missing count is printed.
ReconMissing ==
    /\ reconPc = "loop"
    /\ reconIdx <= Len(ads)
    /\ Truthy(DictGet(ReconAd, "id", None))
    /\ reconLoc <= Len(Locations(ReconCreative))
    /\ LET loc == Locations(ReconCreative)[reconLoc]
       IN RefAt(ReconCreative, loc) \notin DOMAIN MapFor(loc)
    /\ reconLoc' = reconLoc + 1
    /\ UNCHANGED <<ads, reconPc, reconIdx, fetchedAds, disk, downloads>>
    /\ ReconFrame

\* Lines 626-627: the loop over ads has ended.
ReconEnd ==
    /\ reconPc = "loop"
    /\ reconIdx > Len(ads)
    /\ reconPc' = "done"
    /\ UNCHANGED <<ads, reconIdx, fetchedAds, reconLoc, disk, downloads>>
    /\ ReconFrame

ReconNext ==
    \/ ReconNextAd
    \/ ReconResolved
    \/ ReconMissing
    \/ ReconEnd

\* The ads reconciliation can start from: an ad with an id has had its creative
\* fetched (a creative of the API, the empty creative of a failed fetch, or none
\* attached when the response had none); an ad without an id was never fetched.
ReconAdsOf(id) ==
    {[id |-> id, creative |-> c] : c \in Creatives \cup {EmptyDict}} \cup {[id |-> id]}

ReconAdLists ==
    {<<>>} \cup {<<a>> : a \in ReconAdsOf("a1") \cup {[name |-> "no id"]}}
    \cup {<<a, b>> : a \in ReconAdsOf("a1"), b \in ReconAdsOf("a2")}
    \cup {<<[name |-> "no id"], a>> : a \in ReconAdsOf("a1")}

\* The image maps fetch_image_urls can return and the video maps
\* fetch_video_urls_with_backoff can return (any 'source' value is recorded).
ReconHashMaps ==
    UNION {[D -> {"https://x/img.jpg"}] : D \in SUBSET {"h1", "h2"}}
ReconVideoMaps ==
    UNION {[D -> {"https://x/video", None}] : D \in SUBSET {"v1", "v2"}}

\* Line 530: both resolvers have returned; Step 4 starts on an empty media_dir.
ReconInit ==
    /\ ads \in {list \in ReconAdLists : Len(list) <= MaxAds}
    /\ fetchedAds = ads
    /\ hash_url_map \in ReconHashMaps
    /\ video_url_map \in ReconVideoMaps
    /\ reconPc = "loop" /\ reconIdx = 1 /\ reconLoc = 1
    /\ disk = EmptyDict /\ downloads = <<>>
    /\ hash_list = <<>> /\ batch_size = 1 /\ imgI = 0 /\ imgPc = "done"
    /\ imgRequests = <<>> /\ imgTrace = <<>> /\ imgItems = 0 /\ imgOverwrites = FALSE
    /\ imgMerged = <<>>
    /\ video_ids = <<>> /\ vidIdx = 1 /\ vidAttempt = 0 /\ vidPc = "done"
    /\ vidRequests = <<>> /\ vidSourceSeen = {} /\ vidSleeps = <<>>
    /\ vidLast = [k |-> 0, attempt |-> 0, outcome |-> "none"]
    /\ ListIdle /\ FetchIdle /\ FlatIdle
    /\ CollectIdle /\ CallIdle /\ EnvSet

SpecRecon == ReconInit /\ [][ReconNext]_vars

\* Whether a location's sibling field is set, and its value.
SiblingSet(creative, loc) == SiblingField(loc) \in DOMAIN HolderAt(creative, loc)
SiblingValue(creative, loc) == HolderAt(creative, loc)[SiblingField(loc)]

\* C1 as stated: after the reconciliation pass, at every reference location of
\* every ad, a reference that is a key of the resolution map has its sibling
\* field equal to the mapped value, and a reference that is not a key has its
\* sibling field absent.
C1_RoundTripAbsent ==
    reconPc = "done" =>
        \A a \in DOMAIN ads :
            LET creative == DictGet(ads[a], "creative", EmptyDict) IN
            \A n \in DOMAIN Locations(creative) :
                LET loc == Locations(creative)[n]
                    ref == RefAt(creative, loc)
                IN IF ref \in DOMAIN MapFor(loc)
                   THEN /\ SiblingSet(creative, loc)
                        /\ SiblingValue(creative, loc) = MapFor(loc)[ref]
                   ELSE ~SiblingSet(creative, loc)

\* C1 amended: a reference that is a key of the map has its sibling field equal
\* to the mapped value; a reference that is not a key has its sibling field as
\* the creative fetch left it: absent, or still the image_url / photo_data url
\* the fetched creative carried.
C1_RoundTrip ==
    reconPc = "done" =>
        \A a \in DOMAIN ads :
            LET creative == DictGet(ads[a], "creative", EmptyDict)
                fetched == DictGet(fetchedAds[a], "creative", EmptyDict)
            IN
            /\ Locations(creative) = Locations(fetched)
            /\ \A n \in DOMAIN Locations(creative) :
                LET loc == Locations(creative)[n]
                    ref == RefAt(creative, loc)
                IN IF ref \in DOMAIN MapFor(loc)
                   THEN /\ SiblingSet(creative, loc)
                        /\ SiblingValue(creative, loc) = MapFor(loc)[ref]
                   ELSE /\ SiblingSet(creative, loc) = SiblingSet(fetched, loc)
                        /\ SiblingSet(creative, loc) =>
                             SiblingValue(creative, loc) = SiblingValue(fetched, loc)
                        /\ loc.kind \in {"child", "asset", "video_data"} =>
                             ~SiblingSet(creative, loc)

\* C1's case: the pass has ended on an ad whose creative is only image_hash = h1
\* with h1 resolved, so image_url is the mapped URL, and on an ad whose
\* photo_data hash is unresolved and keeps the url it was fetched with.
C1_Witness ==
    /\ reconPc = "done"
    /\ Len(ads) = 2
    /\ DOMAIN DictGet(fetchedAds[1], "creative", EmptyDict) = {"image_hash"}
    /\ "h1" \in DOMAIN hash_url_map
    /\ DOMAIN DictGet(ads[1], "creative", EmptyDict) \ {"local_image_path"}
          = {"image_hash", "image_url"}
    /\ ads[1].creative.image_url = hash_url_map["h1"]
    /\ "h2" \notin DOMAIN hash_url_map
    /\ DOMAIN PhotoDataOf(DictGet(ads[2], "creative", EmptyDict)) = {"image_hash", "url"}

(***************************************************************************)
(* Step 2: reference collection (get_data.py 465-510)                      *)
(***************************************************************************)
\* Bound of the collection passes run over the same ads.
MaxPasses == 2

CollectFrame ==
    UNCHANGED <<imgVars, vidVars, listVars, ads, fetchVars, reconVars, flatVars, callVars, envVars>>

\* Lines 471-490: the image hashes one creative adds to hashes.  The primary
\* hash and the children's hashes are added when truthy (lines 472, 481); the
\* photo_data hash is added whenever photo_data is non-empty and has the key
\* (line 488), whatever its value.
AdImageHashes(creative) ==
    LET h == safe_get(creative, <<"image_hash">>, None)
        children == ChildrenOf(creative)
        photo_data == PhotoDataOf(creative)
    IN (IF Truthy(h) THEN {h} ELSE {})
       \cup {children[k].image_hash : k \in {n \in DOMAIN children : HasImageHash(children[n])}}
       \cup (IF NonEmpty(photo_data) /\ "image_hash" \in DOMAIN photo_data
             THEN {photo_data.image_hash} ELSE {})

\* Lines 496-506: the video identifiers one creative adds to video_ids, each
\* when truthy (lines 498, 505).
AdVideoIds(creative) ==
    LET videos == AssetVideosOf(creative)
        obj_story_vid == safe_get(creative, <<"object_story_spec", "video_data", "video_id">>,
                                  None)
    IN {videos[k].video_id : k \in {n \in DOMAIN videos : HasVideoId(videos[n])}}
       \cup (IF Truthy(obj_story_vid) THEN {obj_story_vid} ELSE {})

\* The loop body rebinding the set to the references of the ad at hand.
AddAll_Rebind(collection, refs) == IF refs = {} THEN collection ELSE refs

\* set.add of every reference of an ad (lines 473, 482, 490, 499, 506).
AddAll(collection, refs) == collection \cup refs

\* Lines 467-508: one ad of the collection loop.
CollectAd ==
    /\ collectPc = "loop"
    /\ collectIdx <= Len(collectList)
    /\ LET creative == DictGet(collectList[collectIdx], "creative", EmptyDict)
       IN /\ hashes' = AddAll(hashes, AdImageHashes(creative))
          /\ video_id_set' = AddAll(video_id_set, AdVideoIds(creative))
    /\ collectIdx' = collectIdx + 1
    /\ UNCHANGED <<collectPc, collectList, collected>>
    /\ CollectFrame

\* Line 510: the loop has ended and the two sets are complete.
CollectEnd ==
    /\ collectPc = "loop"
    /\ collectIdx > Len(collectList)
    /\ collectPc' = "done"
    /\ collected' = Append(collected, [hashes |-> hashes, video_ids |-> video_id_set])
    /\ UNCHANGED <<collectList, collectIdx, hashes, video_id_set>>
    /\ CollectFrame

\* The orders a list can be put in.
Reorderings(list) ==
    {other \in [DOMAIN list -> Range(list)] :
        \E perm \in [DOMAIN list -> DOMAIN list] :
            /\ \A i, j \in DOMAIN list : i # j => perm[i] # perm[j]
            /\ \A i \in DOMAIN list : other[i] = list[perm[i]]}

\* Lines 465-467 run again: Step 2 over the same ads, in the same or in another
\* order, starting from empty sets.
CollectAgain ==
    /\ collectPc = "done"
    /\ Len(collected) < MaxPasses
    /\ collectList' \in Reorderings(ads)
    /\ collectPc' = "loop" /\ collectIdx' = 1
    /\ hashes' = {} /\ video_id_set' = {}
    /\ UNCHANGED collected
    /\ CollectFrame

CollectNext ==
    \/ CollectAd
    \/ CollectEnd
    \/ CollectAgain

\* Creatives with empty or missing references at each location, next to the
\* creatives of the fetch.
CollectCreatives ==
    Creatives \cup
    { [image_hash |-> ""],
      [object_story_spec |-> [photo_data |-> [image_hash |-> ""]]],
      [object_story_spec |-> [photo_data |-> [image_hash |-> None]]],
      [object_story_spec |-> [video_data |-> [video_id |-> ""]]],
      [object_story_spec |->
          [link_data |-> [child_attachments |-> <<[image_hash |-> ""],
                                                  [image_hash |-> "h3"]>>]]],
      [asset_feed_spec |-> [videos |-> <<[video_id |-> ""], [thumbnail_url |-> "t"]>>]] }

CollectAdsOf(id) ==
    {[id |-> id, creative |-> c] : c \in CollectCreatives \cup {EmptyDict}} \cup {[id |-> id]}

\* Line 464: the creative fetch has ended and Step 2 starts.
CollectInit ==
    /\ ads \in {<<>>} \cup {<<a>> : a \in CollectAdsOf("a1")}
              \cup {list \in {<<a, b>> : a \in CollectAdsOf("a1"), b \in CollectAdsOf("a2")} :
                       MaxAds >= 2}
    /\ collectPc = "loop" /\ collectList = ads /\ collectIdx = 1
    /\ hashes = {} /\ video_id_set = {} /\ collected = <<>>
    /\ ImgIdle /\ VidIdle /\ ListIdle /\ FetchIdle /\ ReconIdle /\ FlatIdle /\ CallIdle /\ EnvSet

SpecCollect == CollectInit /\ [][CollectNext]_vars

\* C13: when collection has ended, hashes is exactly the set of the non-empty
\* image_hash values at the primary, carousel-child and photo-data locations
\* of the ads' creatives, and video_ids is exactly the set of the non-empty
\* video_id values of the asset-feed videos and of the object-story video data.
C13_ExactReferences ==
    collectPc = "done" =>
        LET creatives == {DictGet(collectList[k], "creative", EmptyDict) :
                             k \in DOMAIN collectList}
            imageHolders(c) ==
                {c} \cup Range(ChildrenOf(c))
                    \cup {safe_get(c, <<"object_story_spec", "photo_data">>, EmptyDict)}
            videoHolders(c) ==
                Range(AssetVideosOf(c))
                    \cup {safe_get(c, <<"object_story_spec", "video_data">>, EmptyDict)}
        IN /\ hashes = {holder.image_hash :
                           holder \in {x \in UNION {imageHolders(c) : c \in creatives} :
                                          /\ "image_hash" \in DOMAIN x
                                          /\ x.image_hash \notin {"", None}}}
           /\ video_id_set = {holder.video_id :
                           holder \in {x \in UNION {videoHolders(c) : c \in creatives} :
                                          /\ "video_id" \in DOMAIN x
                                          /\ x.video_id \notin {"", None}}}

\* C14: every collection pass over the same ads, in whatever order, ends with
\* the same set of image hashes and the same set of video identifiers.
C14_OrderIndependent ==
    \A i, j \in DOMAIN collected : collected[i] = collected[j]

\* C14's case: two passes have ended, the second over the ads in the other
\* order; both ads carry the hash h1 and the sets hold it once.
C14_Witness ==
    /\ collectPc = "done"
    /\ Len(collected) = 2
    /\ Len(ads) = 2 /\ ads[1] # ads[2]
    /\ collectList = <<ads[2], ads[1]>>
    /\ "h1" \in AdImageHashes(DictGet(ads[1], "creative", EmptyDict))
    /\ "h1" \in AdImageHashes(DictGet(ads[2], "creative", EmptyDict))
    /\ "h1" \in collected[1].hashes
    /\ Cardinality(collected[2].hashes) >= 2

(***************************************************************************)
(* Python's float() and int() on the values of an insights entry           *)
(***************************************************************************)
\* float(text): digits with at most one point and at least one digit, else
\* ValueError.
PyFloatOfText(chars) ==
    LET points == {k \in DOMAIN chars : chars[k] = "."}
        digits == {k \in DOMAIN chars : IsDigit(chars[k])}
    IN IF /\ digits # {}
          /\ Cardinality(points) <= 1
          /\ points \cup digits = DOMAIN chars
       THEN LET p == IF points = {} THEN Len(chars) + 1 ELSE CHOOSE k \in points : TRUE
                whole == SubSeq(chars, 1, p - 1)
                frac == SubSeq(chars, p + 1, Len(chars))
            IN Normal(DigitsValue(whole \o frac), Len(frac))
       ELSE Raises("ValueError")

\* int(x) and float(x) of a JSON value: a number converts, a string is parsed,
\* None raises TypeError.
PyInt(value) ==
    CASE value.t = "num" -> Parsed(value.n, 0)
      [] value.t = "str" -> PyIntOfText(value.s)
      [] OTHER -> Raises("TypeError")

PyFloat(value) ==
    CASE value.t = "num" -> Parsed(value.n, 0)
      [] value.t = "str" -> PyFloatOfText(value.s)
      [] OTHER -> Raises("TypeError")

\* try: x = float(s) except ValueError: x = 0.0  -- any other exception leaves.
FloatOrZeroOnValueError(value) ==
    LET r == PyFloat(value)
    IN IF ~r.ok /\ r.err = "ValueError" THEN Parsed(0, 0) ELSE r

(***************************************************************************)
(* Python's float arithmetic at line 737: int / int and float * int        *)
(***************************************************************************)
\* The significant bits of a Python float (an IEEE 754 double).
FloatPrecision == 53

\* A float that is not zero: its sign, its FloatPrecision bits from the most
\* significant one (which is 1), and the power of two of that first bit.
Float(neg, bits, exp) == [ok |-> TRUE, neg |-> neg, bits |-> bits, exp |-> exp]
FloatZero == [ok |-> TRUE, neg |-> FALSE, bits |-> <<>>, exp |-> 0]

Abs(n) == IF n < 0 THEN 0 - n ELSE n

\* x / y as (x' / y') * 2^exp with y' <= x' < 2 * y', for x, y > 0.
RECURSIVE Normalise(_, _, _)
Normalise(x, y, exp) ==
    IF x < y THEN Normalise(2 * x, y, exp - 1)
    ELSE IF x >= 2 * y THEN Normalise(x, 2 * y, exp + 1)
    ELSE [x |-> x, y |-> y, exp |-> exp]

\* 2^i modulo y, by squaring.
RECURSIVE PowMod2(_, _)
PowMod2(i, y) ==
    IF i = 0 THEN 1 % y
    ELSE LET h == PowMod2(i \div 2, y)
         IN (((h * h) % y) * (IF i % 2 = 1 THEN 2 ELSE 1)) % y

\* The first n bits of x / y for y <= x < 2 * y, and twice what is left over:
\* the bit of 2^(-i) is 1 when twice the remainder of x * 2^(i-1) by y reaches y.
QuotientBits(x, y, n) ==
    LET left(i) == ((x % y) * PowMod2(i, y)) % y
    IN [bits |-> [k \in 1..n |-> IF k = 1 \/ 2 * left(k - 2) >= y THEN 1 ELSE 0],
        rem |-> 2 * left(n - 1)]

\* bits + 1, one bit longer when every bit was 1.
Increment(bits) ==
    LET zeros == {k \in DOMAIN bits : bits[k] = 0}
    IN IF zeros = {} THEN <<1>> \o [k \in DOMAIN bits |-> 0]
       ELSE LET last == CHOOSE k \in zeros : \A j \in zeros : j <= k
            IN [k \in DOMAIN bits |-> IF k < last THEN bits[k]
                                      ELSE IF k = last THEN 1 ELSE 0]

\* Round to nearest, ties to even: bits kept, the first bit dropped (half) and
\* whether a later dropped bit is set (more).
Rounded(neg, bits, exp, half, more) ==
    IF half /\ (more \/ bits[Len(bits)] = 1)
    THEN LET up == Increment(bits)
         IN IF Len(up) > Len(bits)
            THEN Float(neg, SubSeq(up, 1, Len(bits)), exp + 1)
            ELSE Float(neg, up, exp)
    ELSE Float(neg, bits, exp)

\* a / b on two ints: ZeroDivisionError for b = 0, else the float nearest to the
\* quotient.
TrueDivide(a, b) ==
    IF b = 0 THEN Raises("ZeroDivisionError")
    ELSE IF a = 0 THEN FloatZero
    ELSE LET n == Normalise(Abs(a), Abs(b), 0)
             q == QuotientBits(n.x, n.y, FloatPrecision)
         IN Rounded((a < 0) # (b < 0), q.bits, n.exp, q.rem >= n.y, q.rem > n.y)

\* The int a string of bits denotes, and the n bits of an int.
RECURSIVE BitsValue(_)
BitsValue(bits) ==
    IF bits = <<>> THEN 0
    ELSE 2 * BitsValue(SubSeq(bits, 1, Len(bits) - 1)) + bits[Len(bits)]

IntBits(v, n) == [k \in 1..n |-> (v \div Pow2(n - k)) % 2]

\* The number of bits of an int v > 0.
BitLength(v) == CHOOSE n \in 1..30 : Pow2(n - 1) <= v /\ (n = 30 \/ v < Pow2(n))

\* The bits of bits * n for an int n > 0, computed on three parts of the bits
\* so that every intermediate product fits an int.
TimesBits(bits, n) ==
    LET part == (FloatPrecision + 2) \div 3
        low == BitsValue(SubSeq(bits, Len(bits) - part + 1, Len(bits))) * n
        mid == BitsValue(SubSeq(bits, Len(bits) - 2 * part + 1, Len(bits) - part)) * n
                   + low \div Pow2(part)
        high == BitsValue(SubSeq(bits, 1, Len(bits) - 2 * part)) * n + mid \div Pow2(part)
    IN IntBits(high, BitLength(high)) \o IntBits(mid % Pow2(part), part)
           \o IntBits(low % Pow2(part), part)

\* x * n for a float x and an int n > 0: the float nearest to the product.
FloatTimes(x, n) ==
    IF ~x.ok \/ x.bits = <<>> THEN x
    ELSE LET product == TimesBits(x.bits, n)
             extra == Len(product) - FloatPrecision
             dropped == SubSeq(product, FloatPrecision + 1, Len(product))
         IN Rounded(x.neg, SubSeq(product, 1, FloatPrecision), x.exp + extra,
                    dropped # <<>> /\ dropped[1] = 1,
                    \E k \in 2..Len(dropped) : dropped[k] = 1)

(***************************************************************************)
(* safe_get over any JSON value and any dotted path (get_data.py 38-52)    *)
(***************************************************************************)
\* JSON objects and arrays, next to Num, Text and Null: an object maps keys
\* (strings, as their characters) to values.
Dict(d) == [t |-> "dict", d |-> d]
List(items) == [t |-> "list", items |-> items]

\* Line 40: key_path.split('.'): the pieces between the points, "" included.
RECURSIVE Split(_)
Split(chars) ==
    IF \A k \in DOMAIN chars : chars[k] # "." THEN <<chars>>
    ELSE LET p == CHOOSE k \in DOMAIN chars :
                      chars[k] = "." /\ \A j \in 1..(k - 1) : chars[j] # "."
         IN <<SubSeq(chars, 1, p - 1)>> \o Split(SubSeq(chars, p + 1, Len(chars)))

\* Line 49: val[key].  A dict gives the value of the key or KeyError; a list
\* takes an int, counts a negative one from its end, and gives the element or
\* IndexError; a string subscripted by a string, a number and None give
\* TypeError.
Subscript(val, key) ==
    CASE val.t = "dict" ->
           IF key \in DOMAIN val.d THEN [ok |-> TRUE, v |-> val.d[key]]
           ELSE Raises("KeyError")
      [] val.t = "list" ->
           LET n == Len(val.items)
               i == IF key < 0 THEN key + n ELSE key
           IN IF 0 <= i /\ i < n THEN [ok |-> TRUE, v |-> val.items[i + 1]]
              ELSE Raises("IndexError")
      [] OTHER -> Raises("TypeError")

\* Lines 43-50: the loop over keys.  On a list the key is converted by int(),
\* and a ValueError there returns the default at once (lines 45-48); an
\* exception of val[key] leaves the loop.
RECURSIVE SafeGetWalk(_, _)
SafeGetWalk(val, keys) ==
    IF keys = <<>> THEN [end |-> "return", v |-> val]
    ELSE LET key == IF val.t = "list" THEN PyIntOfText(Head(keys))
                    ELSE [ok |-> TRUE, num |-> Head(keys)]
         IN IF ~key.ok THEN [end |-> "return default"]
            ELSE LET next == Subscript(val, key.num)
                 IN IF next.ok THEN SafeGetWalk(next.v, Tail(keys))
                    ELSE [end |-> "raise", err |-> next.err]

\* The exceptions the handler catches with KeyError and TypeError, without
\* IndexError.
SafeGetCaught_NoIndexError == {"KeyError", "TypeError"}

\* Line 51: except (KeyError, TypeError, IndexError).
SafeGetCaught == {"KeyError", "TypeError", "IndexError"}

\* safe_get(data_dict, key_path, default) with key_path a dotted string: the
\* value returned, or the exception that leaves the function.
safe_get_dotted(data_dict, key_path, default) ==
    LET walk == SafeGetWalk(data_dict, Split(key_path))
    IN CASE walk.end = "return" -> [ok |-> TRUE, v |-> walk.v]
         [] walk.end = "return default" -> [ok |-> TRUE, v |-> default]
         [] walk.end = "raise" /\ walk.err \in SafeGetCaught -> [ok |-> TRUE, v |-> default]
         [] OTHER -> Raises(walk.err)

CallFrame ==
    UNCHANGED <<imgVars, vidVars, listVars, ads, fetchVars, reconVars, flatVars,
                collectVars, envVars>>

\* A call of safe_get returns or raises.
SafeGetCall ==
    /\ callPc = "call"
    /\ LET got == safe_get_dotted(callArgs.data_dict, callArgs.key_path, callArgs.default)
       IN IF got.ok
          THEN callPc' = "returned" /\ callResult' = got.v
          ELSE callPc' = "raised" /\ callResult' = None
    /\ UNCHANGED callArgs
    /\ CallFrame

\* The structures safe_get is called on: nested objects and arrays, scalars,
\* null.
SafeGetRoots ==
    { Dict((<<"a">> :> Dict((<<"b">> :> Text(<<"x">>)) @@ (<<"c">> :> Null)))
           @@ (<<"l">> :> List(<<Text(<<"p">>), Dict(<<"k">> :> Num(1))>>))
           @@ (<<"s">> :> Text(<<"s", "t", "r">>))
           @@ (<<"n">> :> Num(5))
           @@ (<<"0">> :> Text(<<"z">>))),
      List(<<Dict(<<"a">> :> Num(1)), List(<<Num(2)>>)>>),
      Dict(<<>>),
      List(<<>>),
      Text(<<"a", "b">>),
      Num(7),
      Null }

\* The dotted paths safe_get is called with.
SafeGetPaths ==
    { <<"a">>, <<"a", ".", "b">>, <<"a", ".", "c">>, <<"a", ".", "x">>,
      <<"a", ".", "b", ".", "z">>, <<"a", ".", "c", ".", "z">>,
      <<"l">>, <<"l", ".", "0">>, <<"l", ".", "1", ".", "k">>, <<"l", ".", "2">>,
      <<"l", ".", "-", "1">>, <<"l", ".", "-", "3">>, <<"l", ".", "x">>,
      <<"l", ".", "1", ".", "5">>, <<"l", ".">>,
      <<"s", ".", "0">>, <<"n", ".", "a">>,
      <<"0">>, <<"0", ".", "a">>, <<"1", ".", "0">>, <<"1", ".", "-", "1">>, <<"2">>,
      <<"-", "2", ".", "a">>, <<>>, <<"a", ".", ".", "b">>, <<".", "a">>, <<"x">> }

SafeGetInit ==
    /\ callPc = "call"
    /\ callArgs \in [data_dict : SafeGetRoots, key_path : SafeGetPaths,
                     default : {Null, Text(<<"d">>)}]
    /\ callResult = None
    /\ ImgIdle /\ VidIdle /\ ListIdle /\ ads = <<>> /\ FetchIdle /\ ReconIdle /\ FlatIdle
    /\ CollectIdle /\ EnvSet

SpecSafeGet == SafeGetInit /\ [][SafeGetCall]_vars

\* The integers a path segment denotes: digits after an optional sign.
Denoted(segment) ==
    LET digits == IF segment # <<>> /\ segment[1] \in {"-", "+"} THEN Tail(segment)
                  ELSE segment
    IN IF digits = <<>> \/ \E k \in DOMAIN digits : ~IsDigit(digits[k]) THEN {}
       ELSE IF segment[1] = "-" THEN {0 - DigitsValue(digits)}
       ELSE {DigitsValue(digits)}

\* The values one segment leads to from a value: the member of an object under
\* that key; the element of an array at that index, a negative index counting
\* from the end; nothing from a scalar or null.
Members(val, segment) ==
    CASE val.t = "dict" -> {val.d[k] : k \in {segment} \cap DOMAIN val.d}
      [] val.t = "list" ->
           {val.items[p] : p \in {q \in DOMAIN val.items :
               \E i \in Denoted(segment) : i = q - 1 \/ i = q - 1 - Len(val.items)}}
      [] OTHER -> {}

\* The values a sequence of segments leads to from a value.
RECURSIVE Reached(_, _)
Reached(val, segments) ==
    IF segments = <<>> THEN {val}
    ELSE UNION {Reached(m, Tail(segments)) : m \in Members(val, Head(segments))}

\* C15: safe_get never raises; it returns the value the path reaches, and the
\* default when the path reaches none (absent key, index out of range,
\* non-integer segment on a sequence, value that cannot be traversed).
C15_SafeGetTotal ==
    callPc # "call" =>
        /\ callPc = "returned"
        /\ LET reached == Reached(callArgs.data_dict, Split(callArgs.key_path))
           IN IF reached = {} THEN callResult = callArgs.default
              ELSE callResult \in reached

\* C15 witness: a path through an object, an array index and an object again
\* returned the value it reaches, not the default.
C15_Witness ==
    /\ callPc = "returned"
    /\ callArgs.key_path = <<"l", ".", "1", ".", "k">>
    /\ callArgs.default = Text(<<"d">>)
    /\ callResult = Num(1)

(***************************************************************************)
(* determine_format_category on any creative (get_data.py 54-64)           *)
(***************************************************************************)
\* The union of two dictionaries with different keys.
Merge(a, b) == [k \in (DOMAIN a) \cup (DOMAIN b) |-> IF k \in DOMAIN a THEN a[k] ELSE b[k]]

\* A dictionary under a key, or nothing when the dictionary has no entry.
Under(key, d) == IF DOMAIN d = {} THEN EmptyDict ELSE DictSet(EmptyDict, key, d)

\* The creatives the classifier is called on: every combination of each
\* recognised field absent, present and empty, or populated.
ClassifyCreatives ==
    { Merge(Merge(Merge(url, hash), thumb),
            Merge(Under("asset_feed_spec", Merge(videos, images)),
                  Under("object_story_spec", Merge(Merge(video, link), photo)))) :
        url \in {EmptyDict, [image_url |-> "https://x/old.png"]},
        hash \in {EmptyDict, [image_hash |-> ""], [image_hash |-> "h1"]},
        thumb \in {EmptyDict, [thumbnail_url |-> "https://x/old.png"]},
        videos \in {EmptyDict, [videos |-> <<>>], [videos |-> <<[video_id |-> "v1"]>>]},
        images \in {EmptyDict, [images |-> <<[url |-> "https://x/old.png"]>>]},
        video \in {EmptyDict, [video_data |-> [video_id |-> ""]],
                   [video_data |-> [video_id |-> "v1"]]},
        link \in {EmptyDict, [link_data |-> [child_attachments |-> <<>>]],
                  [link_data |-> [child_attachments |-> <<[image_hash |-> "h1"]>>]]},
        photo \in {EmptyDict, [photo_data |-> EmptyDict],
                   [photo_data |-> [image_hash |-> "h2"]]} }

\* A call of determine_format_category returns its category.
ClassifyCall ==
    /\ callPc = "classify"
    /\ callPc' = "returned"
    /\ callResult' = determine_format_category(callArgs.ad_creative)
    /\ UNCHANGED callArgs
    /\ CallFrame

ClassifyInit ==
    /\ callPc = "classify"
    /\ callArgs \in [ad_creative : ClassifyCreatives]
    /\ callResult = None
    /\ ImgIdle /\ VidIdle /\ ListIdle /\ ads = <<>> /\ FetchIdle /\ ReconIdle /\ FlatIdle
    /\ CollectIdle /\ EnvSet

SpecClassify == ClassifyInit /\ [][ClassifyCall]_vars

\* The values a creative holds at a key path: one, or none when a key is absent.
RECURSIVE ValuesAt(_, _)
ValuesAt(creative, path) ==
    IF path = <<>> THEN {creative}
    ELSE IF Head(path) \in DOMAIN creative
         THEN ValuesAt(creative[Head(path)], Tail(path))
         ELSE {}

\* A string field holds a non-empty string; a list or block field is not empty.
PopulatedText(creative, path) == \E v \in ValuesAt(creative, path) : v \notin {None, ""}
PopulatedBlock(creative, path) == \E v \in ValuesAt(creative, path) : DOMAIN v # {}

\* The classification rules in their order.
FormatRules(creative) ==
    << [matches |-> DOMAIN creative = {}, category |-> "Unknown"],
       [matches |-> \/ PopulatedBlock(creative, <<"asset_feed_spec", "videos">>)
                    \/ PopulatedText(creative, <<"object_story_spec", "video_data", "video_id">>),
        category |-> "Video/Reel"],
       [matches |-> PopulatedBlock(creative,
                        <<"object_story_spec", "link_data", "child_attachments">>),
        category |-> "Carousel"],
       [matches |-> \/ PopulatedText(creative, <<"image_url">>)
                    \/ PopulatedBlock(creative, <<"asset_feed_spec", "images">>)
                    \/ PopulatedText(creative, <<"image_hash">>)
                    \/ PopulatedText(creative, <<"thumbnail_url">>)
                    \/ PopulatedBlock(creative, <<"object_story_spec", "photo_data">>),
        category |-> "Static Image"],
       [matches |-> TRUE, category |-> "Unknown"] >>

\* C16: determine_format_category always returns, and returns the category of
\* the first rule that matches, in the order Unknown (empty creative),
\* Video/Reel, Carousel, Static Image, Unknown.
C16_FirstMatchingRule ==
    callPc = "returned" /\ "ad_creative" \in DOMAIN callArgs =>
        LET rules == FormatRules(callArgs.ad_creative)
            first == CHOOSE i \in DOMAIN rules :
                         rules[i].matches /\ \A j \in 1..(i - 1) : ~rules[j].matches
        IN callResult = rules[first].category

\* C16 witness: a creative with both a video id and carousel children was
\* classified Video/Reel.
C16_Witness ==
    /\ callPc = "returned"
    /\ "ad_creative" \in DOMAIN callArgs
    /\ PopulatedText(callArgs.ad_creative, <<"object_story_spec", "video_data", "video_id">>)
    /\ PopulatedBlock(callArgs.ad_creative,
                      <<"object_story_spec", "link_data", "child_attachments">>)
    /\ callResult = "Video/Reel"

(***************************************************************************)
(* Steps 4.5 and 6: grouping and flattening (get_data.py 633-800)          *)
(***************************************************************************)
FlatFrame == UNCHANGED <<imgVars, vidVars, listVars, ads, fetchVars, reconVars, collectVars, callVars, envVars>>

\* ad.get("campaign", {}).get("id") and ad.get("adset", {}).get("id")
CampaignOf(ad) == DictGet(ad, "campaign", EmptyDict)
AdsetOf(ad) == DictGet(ad, "adset", EmptyDict)
CampaignIdOf(ad) == DictGet(CampaignOf(ad), "id", None)
AdsetIdOf(ad) == DictGet(AdsetOf(ad), "id", None)

\* The test of line 640 on the campaign identifier alone.
HasBothIds_CampaignOnly(ad) == Truthy(CampaignIdOf(ad))

\* Line 640 negated: the ad has both identifiers.
HasBothIds(ad) == Truthy(CampaignIdOf(ad)) /\ Truthy(AdsetIdOf(ad))

\* Lines 646-656: the campaign node made from the ad that brings a new id.
CampaignNode(ad) ==
    [id |-> CampaignIdOf(ad),
     name |-> DictGet(CampaignOf(ad), "name", ""),
     objective |-> DictGet(CampaignOf(ad), "objective", ""),
     status |-> DictGet(CampaignOf(ad), "status", ""),
     start_time |-> DictGet(CampaignOf(ad), "start_time", ""),
     stop_time |-> DictGet(CampaignOf(ad), "stop_time", ""),
     daily_budget |-> DictGet(CampaignOf(ad), "daily_budget", ""),
     adsets |-> <<>>]

\* Lines 660-669: the adset node made from the ad that brings a new id.
AdsetNode(ad) ==
    [id |-> AdsetIdOf(ad),
     name |-> DictGet(AdsetOf(ad), "name", ""),
     optimization_goal |-> DictGet(AdsetOf(ad), "optimization_goal", ""),
     status |-> DictGet(AdsetOf(ad), "status", ""),
     daily_budget |-> DictGet(AdsetOf(ad), "daily_budget", ""),
     targeting |-> DictGet(AdsetOf(ad), "targeting", EmptyDict),
     ads |-> <<>>]

\* The position of the node with an id in a list of nodes (0: none).
NodeIndex(nodes, id) ==
    IF \E k \in DOMAIN nodes : nodes[k].id = id
    THEN CHOOSE k \in DOMAIN nodes : nodes[k].id = id
    ELSE 0

\* The tree with the ad placed, where the node of an id the tree already holds
\* takes the metadata of the ad.
PlaceAd_Overwrite(tree, ad) ==
    LET old == NodeIndex(tree, CampaignIdOf(ad))
        withCampaign == IF old = 0 THEN Append(tree, CampaignNode(ad))
                        ELSE [tree EXCEPT ![old] =
                                 [CampaignNode(ad) EXCEPT !.adsets = tree[old].adsets]]
        c == NodeIndex(withCampaign, CampaignIdOf(ad))
        adsets == withCampaign[c].adsets
        withAdset == IF NodeIndex(adsets, AdsetIdOf(ad)) = 0
                     THEN Append(adsets, AdsetNode(ad)) ELSE adsets
        a == NodeIndex(withAdset, AdsetIdOf(ad))
    IN [withCampaign EXCEPT ![c].adsets =
           [withAdset EXCEPT ![a].ads = Append(@, ad)]]

\* Lines 645-672: the tree with the ad placed; a node is made only for an id the
\* tree does not hold yet.
PlaceAd(tree, ad) ==
    LET withCampaign == IF NodeIndex(tree, CampaignIdOf(ad)) = 0
                        THEN Append(tree, CampaignNode(ad)) ELSE tree
        c == NodeIndex(withCampaign, CampaignIdOf(ad))
        adsets == withCampaign[c].adsets
        withAdset == IF NodeIndex(adsets, AdsetIdOf(ad)) = 0
                     THEN Append(adsets, AdsetNode(ad)) ELSE adsets
        a == NodeIndex(withAdset, AdsetIdOf(ad))
    IN [withCampaign EXCEPT ![c].adsets =
           [withAdset EXCEPT ![a].ads = Append(@, ad)]]

\* Lines 636-672: one ad of the grouping loop.
GroupAd ==
    /\ flatPc = "group"
    /\ groupIdx <= Len(ads)
    /\ hierarchical_data' = IF HasBothIds(ads[groupIdx])
                            THEN PlaceAd(hierarchical_data, ads[groupIdx])
                            ELSE hierarchical_data
    /\ groupIdx' = groupIdx + 1
    /\ UNCHANGED <<flatPc, flatPos, records, flatError>>
    /\ FlatFrame

\* Lines 674-693: the tree is complete and saved as JSON; flattening starts.
GroupEnd ==
    /\ flatPc = "group"
    /\ groupIdx > Len(ads)
    /\ flatPc' = IF hierarchical_data = <<>> THEN "done" ELSE "flatten"
    /\ UNCHANGED <<groupIdx, hierarchical_data, flatPos, records, flatError>>
    /\ FlatFrame

\* The campaign node, adset node and ad the flattening loops are at.
FlatCampaign == hierarchical_data[flatPos[1]]
FlatAdset == FlatCampaign.adsets[flatPos[2]]
FlatAd == FlatAdset.ads[flatPos[3]]

\* Lines 697-698: the first entry of the ad's insights data, or {}.
InsightsOf(ad) ==
    LET ins_data == DictGet(DictGet(ad, "insights", EmptyDict), "data", <<>>)
    IN IF NonEmpty(ins_data) THEN ins_data[1] ELSE EmptyDict

\* Lines 701-703: float(ins.get("spend", 0)), int(ins.get("impressions", 0)),
\* int(ins.get("clicks", 0)): converted outside any try.
SpendOf(ins) == PyFloat(DictGet(ins, "spend", Num(0)))
ImpressionsOf(ins) == PyInt(DictGet(ins, "impressions", Num(0)))
ClicksOf(ins) == PyInt(DictGet(ins, "clicks", Num(0)))

\* Lines 705-719: ctr, cpc and cpm, converted under except ValueError.
RateOf(ins, field) == FloatOrZeroOnValueError(DictGet(ins, field, Text(<<"0">>)))

\* Lines 722-732: purchase_roas as a list of objects (the first one's value,
\* converted under except (ValueError, TypeError)) or as a bare number.
RoasOf(ins) ==
    LET roas_field == DictGet(ins, "purchase_roas", [t |-> "absent"])
    IN CASE roas_field.t = "list" /\ NonEmpty(roas_field.items) ->
              LET val == DictGet(roas_field.items[1], "value", Null)
              IN IF val.t = "null" \/ (val.t = "str" /\ val.s = <<>>)
                    \/ (val.t = "num" /\ val.n = 0)
                 THEN Parsed(0, 0)
                 ELSE IF PyFloat(val).ok THEN PyFloat(val) ELSE Parsed(0, 0)
         [] roas_field.t = "num" -> Parsed(roas_field.n, 0)
         [] OTHER -> Parsed(0, 0)

\* Line 736: the action types that count as conversions.
ConversionTypes == {"offsite_conversion", "purchase", "onsite_conversion.purchase"}

\* Line 736: sum(int(a.get("value", 0)) for a in actions if a.get("action_type")
\* in [...]); the first int() that raises ends the sum with its exception.
RECURSIVE ConversionsOf(_)
ConversionsOf(actions) ==
    IF actions = <<>> THEN Parsed(0, 0)
    ELSE LET a == Head(actions)
             rest == ConversionsOf(Tail(actions))
         IN IF DictGet(a, "action_type", None) \notin ConversionTypes THEN rest
            ELSE LET v == PyInt(DictGet(a, "value", Num(0)))
                 IN IF ~v.ok THEN v
                    ELSE IF ~rest.ok THEN rest
                    ELSE Parsed(v.num + rest.num, 0)

\* Line 737 without its test of clicks.
ConversionRateOf_Unguarded(conversions, clicks) ==
    FloatTimes(TrueDivide(conversions, clicks), 100)

\* Line 737: (conversions / clicks * 100) if clicks > 0 else 0.0
ConversionRateOf(conversions, clicks) ==
    IF clicks > 0 THEN FloatTimes(TrueDivide(conversions, clicks), 100) ELSE FloatZero

\* Lines 746-761: the local image paths of the primary image and of the
\* carousel children that have one, in order (joined with "," in the record).
LocalImagePaths(ad) ==
    LET creative == DictGet(ad, "creative", EmptyDict)
        primary == DictGet(creative, "local_image_path", None)
        children == ChildrenOf(creative)
        withPath == Ascending({k \in DOMAIN children :
                                  DictGet(children[k], "local_image_path", None) # None})
    IN (IF primary # None THEN <<primary>> ELSE <<>>)
       \o [n \in DOMAIN withPath |-> children[withPath[n]].local_image_path]

\* The conversions of lines 701-736 in their order; the first that raises ends
\* the pass.
FlatConversions(ins) ==
    LET clicks == ClicksOf(ins)
        conversions == ConversionsOf(DictGet(ins, "actions", <<>>))
    IN <<SpendOf(ins), ImpressionsOf(ins), clicks, RateOf(ins, "ctr"),
         RateOf(ins, "cpc"), RateOf(ins, "cpm"), RoasOf(ins), conversions>>
       \o (IF clicks.ok /\ conversions.ok
           THEN <<ConversionRateOf(conversions.num, clicks.num)>> ELSE <<>>)

FlatRaises(ins) == \E k \in DOMAIN FlatConversions(ins) : ~FlatConversions(ins)[k].ok

\* The exception of the first conversion that raises.
FlatRaised(ins) ==
    LET done == FlatConversions(ins)
        first == CHOOSE k \in DOMAIN done :
                     ~done[k].ok /\ \A j \in 1..(k - 1) : done[j].ok
    IN done[first].err

\* Lines 764-794: the record of an ad under its campaign and adset nodes.
FlatRecord(campaign_data, adset_data, ad) ==
    LET ins == InsightsOf(ad)
        creative == DictGet(ad, "creative", EmptyDict)
    IN [ad_id |-> DictGet(ad, "id", None),
        ad_name |-> DictGet(ad, "name", None),
        ad_status |-> DictGet(ad, "status", None),
        format_category |-> DictGet(ad, "format_category", None),
        campaign_id |-> campaign_data.id,
        campaign_name |-> campaign_data.name,
        campaign_objective |-> campaign_data.objective,
        adset_id |-> adset_data.id,
        adset_name |-> adset_data.name,
        optimization_goal |-> adset_data.optimization_goal,
        targeting |-> adset_data.targeting,
        creative_title |-> DictGet(creative, "title", None),
        creative_body |-> DictGet(creative, "body", None),
        creative_image_path |-> LocalImagePaths(ad),
        creative_video_path |->
            safe_get(creative, <<"object_story_spec", "video_data", "local_video_path">>, None),
        creative_video_url |->
            safe_get(creative, <<"object_story_spec", "video_data", "video_url">>, None),
        creative_thumbnail_url |-> DictGet(creative, "thumbnail_url", None),
        copy_text |-> safe_get(creative, <<"object_story_spec", "text_data", "message">>, None),
        link_url |-> safe_get(creative, <<"object_story_spec", "link_data", "link">>, None),
        spend |-> SpendOf(ins),
        impressions |-> ImpressionsOf(ins),
        clicks |-> ClicksOf(ins),
        ctr |-> RateOf(ins, "ctr"),
        cpc |-> RateOf(ins, "cpc"),
        cpm |-> RateOf(ins, "cpm"),
        roas |-> RoasOf(ins),
        conversions |-> ConversionsOf(DictGet(ins, "actions", <<>>)),
        conversion_rate |->
            ConversionRateOf(ConversionsOf(DictGet(ins, "actions", <<>>)).num,
                             ClicksOf(ins).num)]

\* The loops of lines 693-695: the next ad, adset or campaign.
FlatAdvance ==
    IF flatPos[3] < Len(FlatAdset.ads)
    THEN flatPos' = <<flatPos[1], flatPos[2], flatPos[3] + 1>> /\ flatPc' = "flatten"
    ELSE IF flatPos[2] < Len(FlatCampaign.adsets)
    THEN flatPos' = <<flatPos[1], flatPos[2] + 1, 1>> /\ flatPc' = "flatten"
    ELSE /\ flatPos' = <<flatPos[1] + 1, 1, 1>>
         /\ flatPc' = IF flatPos[1] < Len(hierarchical_data) THEN "flatten" ELSE "done"

\* Lines 695-795: one ad of the flattening loops.  A conversion that raises
\* outside its try leaves the loops and the script with the exception: no
\* record is appended and the export of lines 797-800 is not reached.
FlattenAd ==
    /\ flatPc = "flatten"
    /\ IF FlatRaises(InsightsOf(FlatAd))
       THEN /\ flatPc' = "raised"
            /\ flatError' = FlatRaised(InsightsOf(FlatAd))
            /\ UNCHANGED <<flatPos, records>>
       ELSE /\ records' = Append(records, FlatRecord(FlatCampaign, FlatAdset, FlatAd))
            /\ FlatAdvance
            /\ UNCHANGED flatError
    /\ UNCHANGED <<groupIdx, hierarchical_data>>
    /\ FlatFrame

FlatNext ==
    \/ GroupAd
    \/ GroupEnd
    \/ FlattenAd

\* The values a field of an insights entry arrives with: integer text, decimal
\* text, text that is no number, null.
FlatFieldValues ==
    {Text(<<"1", "0">>), Text(<<"1", ".", "5">>), Text(<<"a", "b">>), Null}

NumericFields == {"spend", "impressions", "clicks", "ctr", "cpc", "cpm"}

\* The data lists of the insights of an ad at Step 6 (lines 413, 417): one
\* entry, which is empty, holds one numeric field, holds actions or holds
\* purchase_roas.
FlatInsightsData ==
    {<<EmptyDict>>}
    \cup {<<(f :> v)>> : f \in NumericFields, v \in FlatFieldValues}
    \cup { <<[clicks |-> Text(<<"1", "0">>),
              actions |-> <<[action_type |-> "purchase", value |-> Text(<<"3">>)],
                            [action_type |-> "link_click", value |-> Text(<<"7">>)]>>]>>,
           <<[clicks |-> Num(4),
              actions |-> <<[action_type |-> "purchase", value |-> Text(<<"3", ".", "5">>)]>>]>>,
           <<[clicks |-> Text(<<"1", "0">>),
              actions |-> <<[action_type |-> "purchase", value |-> Text(<<"3">>)]>>]>>,
           <<[clicks |-> Text(<<"0">>),
              actions |-> <<[action_type |-> "purchase", value |-> Text(<<"3">>)]>>]>>,
           <<[clicks |-> Text(<<"1", "0", "0">>),
              actions |-> <<[action_type |-> "offsite_conversion",
                             value |-> Text(<<"7">>)]>>]>>,
           <<[clicks |-> Text(<<"4">>),
              actions |-> <<[action_type |-> "purchase", value |-> Text(<<"3">>)],
                            [action_type |-> "onsite_conversion.purchase", value |-> Num(2)],
                            [action_type |-> "post_engagement", value |-> Text(<<"9">>)],
                            [action_type |-> "purchase"],
                            [value |-> Text(<<"8">>)]>>]>>,
           <<[clicks |-> Text(<<"4">>), actions |-> <<>>]>>,
           <<[spend |-> Text(<<"2", ".", "5", "0">>),
              purchase_roas |-> [t |-> "list",
                                 items |-> <<[value |-> Text(<<"2", ".", "5">>)]>>]]>> }

\* Creatives as Step 4 leaves them, with the local paths of downloaded media.
FlatCreatives ==
    { [title |-> "t", body |-> "b", image_hash |-> "h1",
       image_url |-> "https://x/img.jpg",
       local_image_path |-> MediaPath("https://x/img.jpg", "a1", "h1", "img_")],
      [object_story_spec |->
          [link_data |-> [link |-> "l",
                          child_attachments |->
                              <<[image_hash |-> "h1"],
                                [image_hash |-> "h2", image_url |-> "https://x/img.jpg",
                                 local_image_path |->
                                     MediaPath("https://x/img.jpg", "a1", "h2", "img_")]>>]]] }

\* The ads Step 4.5 can start from: every placement in the hierarchy, every
\* insights entry, every creative.
FlatAdsOf(id) ==
    {[id |-> id, campaign |-> c, adset |-> s, insights |-> [data |-> <<EmptyDict>>]] :
        c \in {[id |-> "c1", name |-> "C1"], [id |-> "c1", name |-> "C1b"],
               [id |-> "c2", name |-> "C2"], [name |-> "C3"]},
        s \in {[id |-> "s1", name |-> "S1"], [id |-> "s1", name |-> "S1b"],
               [id |-> "s2", name |-> "S2"]}}
    \cup {[id |-> id, campaign |-> [id |-> "c1", name |-> "C1"]],
          [id |-> id, adset |-> [id |-> "s1", name |-> "S1"]]}
    \cup {[id |-> id, campaign |-> [id |-> "c1", name |-> "C1"],
           adset |-> [id |-> "s1", name |-> "S1"], insights |-> [data |-> d]] :
             d \in FlatInsightsData}
    \cup {[id |-> id, campaign |-> [id |-> "c1", name |-> "C1"],
           adset |-> [id |-> "s1", name |-> "S1"],
           creative |-> cr, format_category |-> determine_format_category(cr)] :
             cr \in FlatCreatives}

FlatAdLists ==
    UNION {{list \in [1..n -> FlatAdsOf("a1") \cup FlatAdsOf("a2")] :
               \A k \in 1..n : list[k].id = IF k % 2 = 1 THEN "a1" ELSE "a2"} : n \in 0..2}

\* Line 633: Steps 1-4 are over and the ads list is complete.
FlatInit ==
    /\ ads \in {list \in FlatAdLists : Len(list) <= MaxAds}
    /\ flatPc = "group" /\ groupIdx = 1 /\ hierarchical_data = <<>>
    /\ flatPos = <<1, 1, 1>> /\ records = <<>> /\ flatError = None
    /\ ImgIdle /\ VidIdle /\ ListIdle /\ FetchIdle /\ ReconIdle
    /\ CollectIdle /\ CallIdle /\ EnvSet

SpecFlat == FlatInit /\ [][FlatNext]_vars

\* C6: flattening an ad never raises and appends a record whose six numeric
\* fields are the zero-default parse of the ad's insights entry: an absent
\* field is 0, numeric-looking text is its number, and anything that cannot
\* be parsed (non-numeric text, decimal text for impressions or clicks, null)
\* is 0.
C6_ZeroDefaultParse ==
    [][FlattenAd =>
         LET ins == InsightsOf(FlatAd)
             expected(f) ==
                 IF f \notin DOMAIN ins THEN Parsed(0, 0)
                 ELSE LET r == IF f \in {"impressions", "clicks"}
                               THEN PyInt(ins[f]) ELSE PyFloat(ins[f])
                      IN IF r.ok THEN r ELSE Parsed(0, 0)
         IN /\ flatPc' # "raised"
            /\ Len(records') = Len(records) + 1
            /\ \A f \in NumericFields : records'[Len(records')][f] = expected(f)]_vars

\* C7: when flattening has ended, every ad with both a campaign id and an
\* adset id has exactly one record, every other ad has none, and the number
\* of records is the number of ads with both ids.
C7_FlatteningTotal ==
    flatPc \in {"done", "raised"} =>
        /\ Len(records) = Cardinality({k \in DOMAIN ads : HasBothIds(ads[k])})
        /\ \A k \in DOMAIN ads :
              Cardinality({n \in DOMAIN records : records[n].ad_id = ads[k].id})
                  = IF HasBothIds(ads[k]) THEN 1 ELSE 0

(***************************************************************************)
(* Steps 2 to 6 as one run (get_data.py 464-800)                           *)
(***************************************************************************)
\* Line 66: the batch size fetch_image_urls is called with at line 521.
default_batch_size == 100

\* list(a_set): the elements of a set in some order.
Orderings(S) == {list \in DistinctSeqsUpTo(S, Cardinality(S)) : Range(list) = S}

\* Line 521: fetch_image_urls(list(hashes), ...) is called.
CallFetchImageUrls ==
    /\ collectPc = "done" /\ imgPc = "idle"
    /\ hash_list' \in Orderings(hashes)
    /\ batch_size' = default_batch_size
    /\ imgPc' = "start"
    /\ UNCHANGED <<imgI, hash_url_map, imgRequests, imgTrace, imgItems, imgOverwrites,
                   imgMerged>>
    /\ UNCHANGED <<vidVars, listVars, ads, fetchVars, reconVars, flatVars, collectVars,
                   callVars, envVars>>

\* Line 523: fetch_image_urls has returned and
\* fetch_video_urls_with_backoff(list(video_ids), ...) is called.
CallFetchVideoUrls ==
    /\ imgPc = "done" /\ vidPc = "idle"
    /\ video_ids' \in Orderings(video_id_set)
    /\ vidRequests' = [k \in DOMAIN video_ids' |-> 0]
    /\ vidSleeps' = [k \in DOMAIN video_ids' |-> <<>>]
    /\ vidPc' = "start"
    /\ UNCHANGED <<vidIdx, vidAttempt, video_url_map, vidSourceSeen, vidLast>>
    /\ UNCHANGED <<imgVars, listVars, ads, fetchVars, reconVars, flatVars, collectVars,
                   callVars, envVars>>

\* Lines 530-536: both maps are returned and Step 4 starts.
StartReconciliation ==
    /\ vidPc = "done" /\ reconPc = "idle"
    /\ reconPc' = "loop"
    /\ fetchedAds' = ads
    /\ UNCHANGED <<reconIdx, reconLoc, disk, downloads>>
    /\ UNCHANGED <<imgVars, vidVars, listVars, ads, fetchVars, flatVars, collectVars,
                   callVars, envVars>>

\* Lines 626-636: Step 4 has ended and Step 4.5 starts.
StartGrouping ==
    /\ reconPc = "done" /\ flatPc = "idle"
    /\ flatPc' = "group"
    /\ UNCHANGED <<groupIdx, hierarchical_data, flatPos, records, flatError>>
    /\ UNCHANGED <<imgVars, vidVars, listVars, ads, fetchVars, reconVars, collectVars,
                   callVars, envVars>>

RunNext ==
    \/ CollectAd
    \/ CollectEnd
    \/ CallFetchImageUrls
    \/ FetchImageStart
    \/ ImageBatchOk
    \/ ImageMergeItem
    \/ ImageBatchEnd
    \/ ImageBatchApiError
    \/ ImageBatchFailure
    \/ ImageBatchMalformed
    \/ CallFetchVideoUrls
    \/ FetchVideoStart
    \/ VideoSource
    \/ VideoNoSource
    \/ VideoPermissionDenied
    \/ VideoHttpError
    \/ VideoRequestError
    \/ VideoMalformedBody
    \/ VideoMalformedError
    \/ StartReconciliation
    \/ ReconNextAd
    \/ ReconResolved
    \/ ReconMissing
    \/ ReconEnd
    \/ StartGrouping
    \/ GroupAd
    \/ GroupEnd
    \/ FlattenAd

\* The ads Step 2 starts from in a run: fetched creatives with an image hash
\* and a video identifier, under one campaign and adset.
RunAdLists ==
    LET ad(id, creative) ==
            [id |-> id, campaign |-> [id |-> "c1", name |-> "C1"],
             adset |-> [id |-> "s1", name |-> "S1"],
             creative |-> creative, format_category |-> determine_format_category(creative),
             insights |-> [data |-> <<[clicks |-> Text(<<"1", "0">>)]>>]]
    IN { <<ad("a1", [image_hash |-> "h1",
                     object_story_spec |-> [video_data |-> [video_id |-> "v1"]]])>>,
         <<ad("a1", [image_hash |-> "h1"]),
           ad("a2", [asset_feed_spec |-> [videos |-> <<[video_id |-> "v1"]>>]])>> }

\* Line 464: the creative and insights fetches have ended.
RunInit ==
    /\ ads \in {list \in RunAdLists : Len(list) <= MaxAds}
    /\ collectPc = "loop" /\ collectList = ads /\ collectIdx = 1
    /\ hashes = {} /\ video_id_set = {} /\ collected = <<>>
    /\ ImgIdle /\ VidIdle /\ ListIdle /\ FetchIdle /\ ReconIdle /\ FlatIdle /\ CallIdle /\ EnvSet

SpecRun == RunInit /\ [][RunNext]_vars

\* C12: at every step of a run, through resolution, reconciliation and
\* flattening, every key of the image map and of the video map stays a key: a
\* resolved reference is never removed.
C12_MapsOnlyGrow ==
    [][/\ DOMAIN hash_url_map \subseteq DOMAIN hash_url_map'
       /\ DOMAIN video_url_map \subseteq DOMAIN video_url_map']_vars

\* C12's case: the run has ended after flattening two ads with two hashes and
\* a video identifier in the maps.
C12_Witness ==
    /\ flatPc = "done"
    /\ Len(records) = 2
    /\ Cardinality(DOMAIN hash_url_map) = 2
    /\ DOMAIN video_url_map = {"v1"}

(***************************************************************************)
(* Step 4.5: what the grouping loop has built                              *)
(***************************************************************************)
\* The identifier an ad carries for its campaign or adset: one, or none when
\* the block or its id is absent or empty.
IdsIn(ad, block) ==
    IF block \in DOMAIN ad /\ "id" \in DOMAIN ad[block]
    THEN {ad[block].id} \ {None, ""}
    ELSE {}

\* The places of the tree: campaign node, adset node, position in its ads list.
Slots ==
    UNION {UNION {{<<c, s, k>> : k \in DOMAIN hierarchical_data[c].adsets[s].ads} :
                      s \in DOMAIN hierarchical_data[c].adsets} :
               c \in DOMAIN hierarchical_data}

AdAt(slot) == hierarchical_data[slot[1]].adsets[slot[2]].ads[slot[3]]

\* C17: of the ads the grouping loop has gone through, each one with a campaign
\* id and an adset id is at exactly one place of the tree, under the campaign
\* node and the adset node of its ids; an ad missing either id is at no place;
\* the tree holds nothing else, and one node per id.
C17_PlacedExactlyOnce ==
    LET grouped == 1..(groupIdx - 1)
    IN /\ \A i \in grouped :
            LET places == {slot \in Slots : AdAt(slot) = ads[i]}
            IN IF IdsIn(ads[i], "campaign") # {} /\ IdsIn(ads[i], "adset") # {}
               THEN /\ Cardinality(places) = 1
                    /\ \A slot \in places :
                         /\ hierarchical_data[slot[1]].id \in IdsIn(ads[i], "campaign")
                         /\ hierarchical_data[slot[1]].adsets[slot[2]].id
                                \in IdsIn(ads[i], "adset")
               ELSE places = {}
       /\ \A slot \in Slots : \E i \in grouped : AdAt(slot) = ads[i]
       /\ \A c, d \in DOMAIN hierarchical_data :
            /\ hierarchical_data[c].id = hierarchical_data[d].id => c = d
            /\ c = d => \A s, t \in DOMAIN hierarchical_data[c].adsets :
                 hierarchical_data[c].adsets[s].id = hierarchical_data[c].adsets[t].id
                     => s = t

\* C17 witness: the loop went through an ad without a campaign id and an ad
\* with both ids, and the tree holds the second one only.
C17_Witness ==
    /\ groupIdx = 3
    /\ IdsIn(ads[1], "campaign") = {}
    /\ IdsIn(ads[2], "campaign") # {} /\ IdsIn(ads[2], "adset") # {}
    /\ Cardinality(Slots) = 1
    /\ \A slot \in Slots : AdAt(slot) = ads[2]

\* A field of the campaign or adset block of an ad, "" when the ad has none.
MetaOf(ad, block, field) ==
    IF block \in DOMAIN ad /\ field \in DOMAIN ad[block] THEN ad[block][field] ELSE ""

CampaignMeta == {"name", "objective", "status", "start_time", "stop_time", "daily_budget"}
AdsetMeta == {"name", "optimization_goal", "status", "daily_budget"}

\* The first of the given ads.
FirstOf(indexes) == CHOOSE i \in indexes : \A j \in indexes : i <= j

\* The ads gone through that carry a campaign id, or an adset id.
WithCampaign(cid) == {i \in 1..(groupIdx - 1) : cid \in IdsIn(ads[i], "campaign")}
WithAdset(sid) == {i \in 1..(groupIdx - 1) : sid \in IdsIn(ads[i], "adset")}

\* The metadata of the nodes and of the flat records is that of the ads that
\* `campaignSource` and `adsetSource` pick for a campaign id and for an adset id
\* under a campaign id.
MetadataFrom(campaignSource(_), adsetSource(_, _)) ==
    /\ \A c \in DOMAIN hierarchical_data :
         LET node == hierarchical_data[c]
         IN /\ \A f \in CampaignMeta : node[f] = MetaOf(ads[campaignSource(node.id)], "campaign", f)
            /\ \A s \in DOMAIN node.adsets :
                 \A f \in AdsetMeta :
                     node.adsets[s][f]
                         = MetaOf(ads[adsetSource(node.id, node.adsets[s].id)], "adset", f)
    /\ \A r \in DOMAIN records :
         /\ records[r].campaign_name
                = MetaOf(ads[campaignSource(records[r].campaign_id)], "campaign", "name")
         /\ records[r].campaign_objective
                = MetaOf(ads[campaignSource(records[r].campaign_id)], "campaign", "objective")
         /\ records[r].adset_name
                = MetaOf(ads[adsetSource(records[r].campaign_id, records[r].adset_id)],
                         "adset", "name")
         /\ records[r].optimization_goal
                = MetaOf(ads[adsetSource(records[r].campaign_id, records[r].adset_id)],
                         "adset", "optimization_goal")

FirstWithCampaign(cid) == FirstOf(WithCampaign(cid))
FirstWithAdset(cid, sid) ==
    FirstOf({i \in WithAdset(sid) : IdsIn(ads[i], "campaign") \subseteq {cid}})
FirstPlacedInCampaign(cid) ==
    FirstOf({i \in WithCampaign(cid) : IdsIn(ads[i], "adset") # {}})
FirstPlacedInAdset(cid, sid) == FirstOf(WithCampaign(cid) \cap WithAdset(sid))

\* C18 as stated: the metadata of a campaign node and of an adset node, and the
\* metadata in every flat record, is that of the first ad gone through that
\* carries the id (for an adset, among the ads that carry no other campaign id).
C18_FirstEncountered == MetadataFrom(FirstWithCampaign, FirstWithAdset)

\* C18 amended: the metadata of a campaign node, and of an adset node, is that
\* of the first ad placed in the tree with the campaign id, and with the
\* campaign id and the adset id (an ad carrying only one of the ids is skipped and
\* gives no metadata); later ads leave it unchanged and every flat record shows
\* it.
C18_FirstPlaced == MetadataFrom(FirstPlacedInCampaign, FirstPlacedInAdset)

\* C18 witness: two ads of one campaign and one adset carrying different
\* campaign and adset names were flattened, and both records show the names of
\* the first.
C18_Witness ==
    /\ flatPc = "done" /\ Len(ads) = 2 /\ Len(records) = 2
    /\ ads[1].campaign.id = ads[2].campaign.id /\ ads[1].adset.id = ads[2].adset.id
    /\ ads[1].campaign.name # ads[2].campaign.name
    /\ ads[1].adset.name # ads[2].adset.name
    /\ \A r \in 1..2 : /\ records[r].campaign_name = ads[1].campaign.name
                       /\ records[r].adset_name = ads[1].adset.name

(***************************************************************************)
(* Step 6: the derived metrics of a flat record                            *)
(***************************************************************************)
\* A float is the number p / q to within one part in 2^18, for p >= 0, q > 0:
\* p / q lies between the float cut to its first 20 bits, less one in the last
\* of them, and that plus two.
Near(x, p, q) ==
    IF p = 0 THEN x = FloatZero
    ELSE /\ x.ok /\ ~x.neg /\ Len(x.bits) = FloatPrecision
         /\ LET top == BitsValue(SubSeq(x.bits, 1, 20))
                shift == x.exp - 19
            IN IF shift >= 0
               THEN /\ (top - 1) * Pow2(shift) * q <= p
                    /\ p <= (top + 2) * Pow2(shift) * q
               ELSE /\ (top - 1) * q <= p * Pow2(0 - shift)
                    /\ p * Pow2(0 - shift) <= (top + 2) * q

\* The insights entry of the example: 10 clicks and one purchase action of 3.
ExampleInsights ==
    [clicks |-> Text(<<"1", "0">>),
     actions |-> <<[action_type |-> "purchase", value |-> Text(<<"3">>)]>>]

\* The float 30.0: the bits 11110 and zeros, the first one worth 2^4.
Thirty == Float(FALSE, [k \in 1..FloatPrecision |-> IF k <= 4 THEN 1 ELSE 0], 4)

\* C19: in every flat record conversion_rate is conversions / clicks * 100 when
\* clicks > 0 (as a float: to within rounding) and exactly 0 when clicks <= 0,
\* whatever conversions is; flattening never ends with a division by zero; the
\* record of the example insights has conversions 3 and conversion_rate 30.
C19_ConversionRate ==
    /\ flatError # "ZeroDivisionError"
    /\ \A r \in DOMAIN records :
         LET rec == records[r]
         IN /\ IF rec.clicks.num > 0
               THEN Near(rec.conversion_rate, rec.conversions.num * 100, rec.clicks.num)
               ELSE rec.conversion_rate = FloatZero
            /\ \A i \in DOMAIN ads :
                 /\ ads[i].id = rec.ad_id
                 /\ "insights" \in DOMAIN ads[i]
                 /\ ads[i].insights.data = <<ExampleInsights>>
                 => rec.conversions.num = 3 /\ rec.conversion_rate = Thirty

\* C19 witness: the ad of the example and an ad with conversions but 0 clicks
\* were flattened, the first to conversion_rate 30 and the second to 0.
C19_Witness ==
    /\ flatPc = "done" /\ Len(records) = 2
    /\ ads[1].insights.data = <<ExampleInsights>>
    /\ records[1].conversions.num = 3 /\ records[1].conversion_rate = Thirty
    /\ records[2].clicks.num = 0 /\ records[2].conversions.num = 3
    /\ records[2].conversion_rate = FloatZero

\* The numeric value of an action entry in tenths: 0 without a value, the number
\* itself, or the number its text denotes.
ValueInTenths(action) ==
    IF "value" \notin DOMAIN action THEN 0
    ELSE LET v == PyFloat(action.value)
         IN IF v.scale = 0 THEN 10 * v.num ELSE v.num

\* The sum of the numeric values of the entries of the recognised types.
RECURSIVE RecognisedTenths(_)
RecognisedTenths(actions) ==
    IF actions = <<>> THEN 0
    ELSE RecognisedTenths(Tail(actions))
         + (IF /\ "action_type" \in DOMAIN Head(actions)
               /\ Head(actions).action_type
                      \in {"offsite_conversion", "purchase", "onsite_conversion.purchase"}
            THEN ValueInTenths(Head(actions)) ELSE 0)

\* The fields converted before the actions are read (lines 701-719) convert.
MetricsConvert(ins) ==
    /\ SpendOf(ins).ok /\ ImpressionsOf(ins).ok /\ ClicksOf(ins).ok
    /\ \A f \in {"ctr", "cpc", "cpm"} : RateOf(ins, f).ok

\* C20: the record of an ad (one whose other metrics convert) has as conversions the sum of the numeric values of the action entries of
\* the recognised types, entries of other types adding nothing, and 0 for an
\* absent or empty actions list.
C20_ConversionsSum ==
    [][FlattenAd /\ MetricsConvert(InsightsOf(FlatAd)) =>
         LET ins == InsightsOf(FlatAd)
             actions == IF "actions" \in DOMAIN ins THEN ins.actions ELSE <<>>
         IN /\ Len(records') = Len(records) + 1
            /\ 10 * records'[Len(records')].conversions.num = RecognisedTenths(actions)]_vars

(***************************************************************************)
(* Step 4 run again on the media directory of earlier runs                 *)
(***************************************************************************)
\* The download requests a behaviour may issue.
MaxDownloads == 3

\* The script is run again: the ads are fetched anew, the resolvers return the
\* same maps, and Step 4 starts over on the media directory as the earlier runs
\* left it (os.makedirs(..., exist_ok=True) at line 197 keeps its files).
ReconRerun ==
    /\ reconPc = "done"
    /\ Len(downloads) < MaxDownloads
    /\ ads' = fetchedAds
    /\ reconPc' = "loop" /\ reconIdx' = 1 /\ reconLoc' = 1
    /\ UNCHANGED <<fetchedAds, disk, downloads>>
    /\ ReconFrame

RerunNext ==
    \/ ReconNextAd
    \/ ReconResolved
    \/ ReconMissing
    \/ ReconEnd
    \/ ReconRerun

\* The creatives of the runs: one of each reference location, a reference held
\* twice at locations that share a file name, and two carousel children.
RerunCreatives ==
    { [image_hash |-> "h1"],
      [object_story_spec |-> [photo_data |-> [image_hash |-> "h2"]]],
      [object_story_spec |->
          [link_data |-> [child_attachments |-> <<[image_hash |-> "h1"],
                                                  [image_hash |-> "h1"]>>]]],
      [asset_feed_spec |-> [videos |-> <<[video_id |-> "v1"], [video_id |-> "v1"]>>]],
      [image_hash |-> "h1", object_story_spec |-> [video_data |-> [video_id |-> "v2"]]] }

RerunInit ==
    /\ ads \in {<<[id |-> "a1", creative |-> c]>> : c \in RerunCreatives}
               \cup {<<[id |-> "a1", creative |-> c], [id |-> "a2", creative |-> c]>> :
                        c \in RerunCreatives}
    /\ fetchedAds = ads
    /\ hash_url_map = [h \in {"h1", "h2"} |-> "https://x/img.jpg"]
    /\ video_url_map \in {[v \in {"v1", "v2"} |-> "https://x/video"],
                          [v \in {"v1"} |-> "https://x/video"]}
    /\ reconPc = "loop" /\ reconIdx = 1 /\ reconLoc = 1
    /\ disk = EmptyDict /\ downloads = <<>>
    /\ hash_list = <<>> /\ batch_size = 1 /\ imgI = 0 /\ imgPc = "done"
    /\ imgRequests = <<>> /\ imgTrace = <<>> /\ imgItems = 0 /\ imgOverwrites = FALSE
    /\ imgMerged = <<>>
    /\ video_ids = <<>> /\ vidIdx = 1 /\ vidAttempt = 0 /\ vidPc = "done"
    /\ vidRequests = <<>> /\ vidSourceSeen = {} /\ vidSleeps = <<>>
    /\ vidLast = [k |-> 0, attempt |-> 0, outcome |-> "none"]
    /\ ListIdle /\ FetchIdle /\ FlatIdle
    /\ CollectIdle /\ CallIdle /\ EnvSet

SpecRerun == RerunInit /\ [][RerunNext]_vars

\* The number of requests issued for a path.
RequestsFor(path, requests) == Cardinality({k \in DOMAIN requests : requests[k] = path})

\* The path of the file of the location Step 4 is at.
PathAtHand ==
    LET loc == Locations(ReconCreative)[reconLoc]
    IN <<MediaPrefix(loc), ReconAd.id>> \o <<MediaIdentifier(ReconCreative, loc)>>

\* C21: no step issues a request for a path at which a file exists, so that once
\* a file is present at a path no download for it follows, in the run or in a
\* later run; and the location reconciled while its file exists gets that path
\* as its local path.
C21_MirrorIdempotent ==
    [][/\ \A path \in DOMAIN disk :
            RequestsFor(path, downloads') = RequestsFor(path, downloads)
       /\ ReconResolved =>
            \A path \in DOMAIN disk :
                (path[1] = PathAtHand[1] /\ path[2] = PathAtHand[2]
                    /\ path[3] = PathAtHand[3])
                => HolderAt(ads'[reconIdx].creative, Locations(ReconCreative)[reconLoc])
                       [LocalField(Locations(ReconCreative)[reconLoc])] = path]_vars

\* C21 witness: a later run is past the first location of an ad with two
\* locations, one request was issued for each file in the first run and none
\* since, and the location has its file's path again.
C21_Witness ==
    /\ reconPc = "loop" /\ Len(ads) = 1 /\ reconIdx = 1 /\ reconLoc = 2
    /\ Len(downloads) = 2
    /\ \A path \in DOMAIN disk : RequestsFor(path, downloads) = 1
    /\ Cardinality(DOMAIN disk) = 2
    /\ "local_image_path" \in DOMAIN ads[1].creative
    /\ ads[1].creative.local_image_path \in DOMAIN disk

\* The step issued a download request and the download failed: no file, or a
\* file that is not complete, is at the requested path.
DownloadFailed ==
    /\ Len(downloads') = Len(downloads) + 1
    /\ LET path == downloads'[Len(downloads')]
       IN path \notin DOMAIN disk' \/ disk'[path] # "complete"

\* C22: the reconciliation of a location whose download fails writes the
\* resolved URL to the sibling URL field, sets no local path at the location,
\* and goes on to the next location of the run.
C22_DownloadFailureLocal ==
    [][ReconResolved /\ DownloadFailed =>
         LET loc == Locations(ReconCreative)[reconLoc]
             holder == HolderAt(ads'[reconIdx].creative, loc)
         IN /\ SiblingField(loc) \in DOMAIN holder
            /\ holder[SiblingField(loc)] = MapFor(loc)[RefAt(ReconCreative, loc)]
            /\ LocalField(loc) \notin DOMAIN holder
            /\ reconPc' = "loop" /\ reconIdx' = reconIdx /\ reconLoc' = reconLoc + 1]_vars

\* C22 witness: the download for the first ad failed, leaving its image_url set
\* and its local path unset, and the run went on to download the second ad's
\* file and ended.
C22_Witness ==
    /\ reconPc = "done" /\ Len(ads) = 2 /\ Len(downloads) = 2
    /\ downloads[1] \notin DOMAIN disk
    /\ downloads[2] \in DOMAIN disk
    /\ DOMAIN ads[1].creative = {"image_hash", "image_url"}
    /\ ads[1].creative.image_url = hash_url_map["h1"]
    /\ DOMAIN ads[2].creative = {"image_hash", "image_url", "local_image_path"}

\* C30: every local path reconciliation has recorded names a file that holds
\* the complete bytes of a download that finished: no local_image_path or
\* local_video_path points at the partial file of a download that failed
\* part-way, in the run of the failure or in a later run.
C30_RecordedFileComplete ==
    \A a \in DOMAIN ads :
        \A l \in DOMAIN Locations(ads[a].creative) :
            LET loc == Locations(ads[a].creative)[l]
                holder == HolderAt(ads[a].creative, loc)
            IN LocalField(loc) \in DOMAIN holder =>
                   /\ holder[LocalField(loc)] \in DOMAIN disk
                   /\ disk[holder[LocalField(loc)]] = "complete"

(***************************************************************************)
(* The start of the script (get_data.py 28-34, 229-257, 803-804)           *)
(***************************************************************************)
StartFrame ==
    UNCHANGED <<imgVars, vidVars, fetchVars, reconVars, flatVars, collectVars, callVars>>

\* The test of line 32 with any() for all().
CredentialsPresent_Any == Truthy(ACCESS_TOKEN) \/ Truthy(AD_ACCOUNT_ID)

\* Line 32: all([ACCESS_TOKEN, AD_ACCOUNT_ID])
CredentialsPresent == Truthy(ACCESS_TOKEN) /\ Truthy(AD_ACCOUNT_ID)

\* Lines 32-34: without both credentials the module prints and calls exit().
CheckCredentials ==
    /\ startPc = "import"
    /\ startPc' = IF CredentialsPresent THEN "main" ELSE "exited"
    /\ UNCHANGED <<ACCESS_TOKEN, AD_ACCOUNT_ID, listVars, ads>>
    /\ StartFrame

\* Lines 803-804 and 229-257: get_data_script() is called and reaches the
\* listing loop with the first page's url.
CallGetDataScript ==
    /\ startPc = "main" /\ listPc = "idle"
    /\ listUrl' = 1 /\ listPc' = "loop"
    /\ UNCHANGED <<listPage, listTries, ads, envVars>>
    /\ StartFrame

StartNext ==
    \/ CheckCredentials
    \/ CallGetDataScript
    \/ ListPageOk
    \/ ListServerError
    \/ ListOtherHttpError
    \/ ListRequestError

\* Lines 28-29: what os.getenv returns: None for an unset variable, the value
\* of a set one, which can be empty.
StartInit ==
    /\ startPc = "import"
    /\ ACCESS_TOKEN \in {None, "", "token"}
    /\ AD_ACCOUNT_ID \in {None, "", "act_id"}
    /\ ListIdle /\ ads = <<>>
    /\ ImgIdle /\ VidIdle /\ FetchIdle /\ ReconIdle /\ FlatIdle
    /\ CollectIdle /\ CallIdle

SpecStart == StartInit /\ [][StartNext]_vars

\* C23: in a run where the access token or the ad account id is missing (unset
\* or empty) the script never gets past its start: no listing request, no
\* lookup, no per-ad fetch and no download is ever issued.
C23_NoRequestWithoutCredentials ==
    ACCESS_TOKEN \in {None, ""} \/ AD_ACCOUNT_ID \in {None, ""} =>
        /\ startPc \in {"import", "exited"}
        /\ listPc = "idle" /\ listTries = 0 /\ listPage = 1 /\ ads = <<>>
        /\ imgRequests = <<>> /\ vidRequests = <<>> /\ downloads = <<>>
        /\ fetchPc = "idle"

\* C23 witness: the run with a token and no account id has exited.
C23_Witness ==
    /\ startPc = "exited"
    /\ ACCESS_TOKEN = "token" /\ AD_ACCOUNT_ID = None
    /\ listPc = "idle"

(***************************************************************************)
(* The chat-history utility (src/utils.py 7-9, 44-72)                      *)
(***************************************************************************)
\* Line 9
S3_PREFIX == <<"c", "h", "a", "t", "_", "h", "i", "s", "t", "o", "r", "y", "/">>

\* Line 52: f"{S3_PREFIX}{session_id}.json"
S3Key(session_id) == S3_PREFIX \o session_id \o <<".", "j", "s", "o", "n">>

\* A body json.loads rejects.
NotJson == [t |-> "invalid"]

\* The error codes of the ClientError the store answers a get_object with.
ClientErrorCodes == {"NoSuchKey", "AccessDenied", "NoSuchBucket"}

ClientError(code) == [exc |-> "ClientError", Code |-> code]

\* Lines 55-56: s3_client.get_object and the read of its body.  The store
\* answers with the object, with a ClientError (NoSuchKey for an absent key), or
\* the client fails before any answer, which is not a ClientError.
get_object(objects, fault, Key) ==
    CASE fault \in ClientErrorCodes -> Raises(ClientError(fault))
      [] fault # "none" -> Raises([exc |-> fault, Code |-> None])
      [] Key \notin DOMAIN objects -> Raises(ClientError("NoSuchKey"))
      [] OTHER -> [ok |-> TRUE, v |-> objects[Key]]

\* Line 61: what "for msg in dict_messages" iterates over.
Iterate(val) ==
    CASE val.t = "list" -> [ok |-> TRUE, v |-> val.items]
      [] val.t = "dict" ->
           LET keys == DOMAIN val.d
               order == CHOOSE f \in [1..Cardinality(keys) -> keys] :
                            \A i, j \in 1..Cardinality(keys) : i # j => f[i] # f[j]
           IN [ok |-> TRUE, v |-> [i \in 1..Cardinality(keys) |-> Text(order[i])]]
      [] val.t = "str" -> [ok |-> TRUE, v |-> [i \in 1..Len(val.s) |-> Text(<<val.s[i]>>)]]
      [] OTHER -> Raises([exc |-> "TypeError", Code |-> None])

\* msg['type'], msg['content']: a subscript with a string key.
Item(val, key) ==
    IF val.t = "dict"
    THEN IF key \in DOMAIN val.d THEN [ok |-> TRUE, v |-> val.d[key]]
         ELSE Raises([exc |-> "KeyError", Code |-> None])
    ELSE Raises([exc |-> "TypeError", Code |-> None])

human == <<"h", "u", "m", "a", "n">>
ai == <<"a", "i">>
type == <<"t", "y", "p", "e">>
content == <<"c", "o", "n", "t", "e", "n", "t">>

HumanMessage(c) == [type |-> "human", content |-> c]
AIMessage(c) == [type |-> "ai", content |-> c]

\* Lines 60-66: the loop that rebuilds the messages.
RECURSIVE Deserialize(_, _)
Deserialize(items, messages) ==
    IF items = <<>> THEN [ok |-> TRUE, v |-> messages]
    ELSE LET msg == Head(items)
             ty == Item(msg, type)
         IN IF ~ty.ok THEN ty
            ELSE IF ty.v = Text(human) \/ ty.v = Text(ai)
                 THEN LET c == Item(msg, content)
                      IN IF ~c.ok THEN c
                         ELSE Deserialize(Tail(items),
                                  Append(messages,
                                         IF ty.v = Text(human) THEN HumanMessage(c.v)
                                         ELSE AIMessage(c.v)))
                 ELSE Deserialize(Tail(items), messages)

\* Lines 54-66: the body of the try.
LoadTry(objects, fault, Key) ==
    LET response == get_object(objects, fault, Key)
    IN IF ~response.ok THEN response
       ELSE IF response.v = NotJson THEN Raises([exc |-> "JSONDecodeError", Code |-> None])
       ELSE LET dict_messages == Iterate(response.v)
            IN IF ~dict_messages.ok THEN dict_messages
               ELSE Deserialize(dict_messages.v, <<>>)

\* load_chat_history without its except clause.
load_chat_history_Uncaught(bucket, session_id, objects, fault) ==
    IF ~Truthy(bucket) THEN [ok |-> TRUE, v |-> <<>>]
    ELSE LoadTry(objects, fault, S3Key(session_id))

\* Lines 44-72: load_chat_history.  bucket is the module's S3_BUCKET_NAME;
\* objects and fault are the store the client talks to.
load_chat_history(bucket, session_id, objects, fault) ==
    IF ~Truthy(bucket) THEN [ok |-> TRUE, v |-> <<>>]
    ELSE LET got == LoadTry(objects, fault, S3Key(session_id))
         IN IF ~got.ok /\ got.err.exc = "ClientError"
            THEN [ok |-> TRUE, v |-> <<>>]
            ELSE got

\* A call of load_chat_history returns or raises.
LoadChatHistoryCall ==
    /\ callPc = "call"
    /\ LET got == load_chat_history(callArgs.S3_BUCKET_NAME, callArgs.session_id,
                                    callArgs.objects, callArgs.fault)
       IN IF got.ok
          THEN callPc' = "returned" /\ callResult' = got.v
          ELSE callPc' = "raised" /\ callResult' = None
    /\ UNCHANGED callArgs
    /\ CallFrame

Message(ty, c) == Dict((type :> Text(ty)) @@ (content :> Text(c)))

\* The bodies stored under a key: what save_chat_history writes, and bodies
\* written by something else.
ChatBodies ==
    { List(<<Message(human, <<"h", "i">>), Message(ai, <<"y", "o">>)>>),
      List(<<>>),
      List(<<Message(<<"s", "y", "s">>, <<"x">>), Message(human, <<"h", "i">>)>>),
      List(<<Dict(content :> Text(<<"x">>))>>),
      Dict(type :> Text(human)),
      Num(3),
      NotJson }

ChatSessions == {<<"s", "1">>, <<"s", "2">>}

ChatStores ==
    UNION { [keys -> ChatBodies] : keys \in SUBSET { S3Key(sid) : sid \in ChatSessions } }

ChatFaults == ClientErrorCodes \cup {"none", "EndpointConnectionError"}

\* callArgs holds session_id together with what the call reads: the module's
\* S3_BUCKET_NAME (line 8: os.getenv, a string or None) and the store.
ChatInit ==
    /\ callPc = "call"
    /\ callArgs \in [S3_BUCKET_NAME : {None, "", "bucket"}, session_id : ChatSessions,
                     objects : ChatStores, fault : ChatFaults]
    /\ callResult = None
    /\ ImgIdle /\ VidIdle /\ ListIdle /\ ads = <<>> /\ FetchIdle /\ ReconIdle /\ FlatIdle
    /\ CollectIdle /\ EnvSet

SpecChat == ChatInit /\ [][LoadChatHistoryCall]_vars

\* The call's key is absent from the store, which answers.
KeyMissing ==
    /\ callArgs.fault = "none"
    /\ S3Key(callArgs.session_id) \notin DOMAIN callArgs.objects

\* C24: a finished call of load_chat_history has returned the empty list, and
\* has not raised, whenever the session's key is absent from the store, no
\* bucket is configured, or the store answered with any other client error.
C24_MissingKeyEmpty ==
    /\ callPc # "call"
    /\ \/ KeyMissing
       \/ ~Truthy(callArgs.S3_BUCKET_NAME)
       \/ callArgs.fault \in ClientErrorCodes
    => callPc = "returned" /\ callResult = <<>>

\* C24 witness: with a bucket configured and another session stored, the call
\* for a session that has no object has returned the empty list.
C24_Witness ==
    /\ callPc = "returned" /\ callResult = <<>>
    /\ callArgs.S3_BUCKET_NAME = "bucket"
    /\ KeyMissing
    /\ callArgs.objects # <<>>

(***************************************************************************)
(* Saving a chat history, and loading it back (src/utils.py 20-42)         *)
(***************************************************************************)
system == <<"s", "y", "s", "t", "e", "m">>

SystemMessage(c) == [type |-> "system", content |-> c]

\* msg.type as the text json.dumps writes.
TypeText(msg) ==
    CASE msg.type = "human" -> Text(human)
      [] msg.type = "ai" -> Text(ai)
      [] msg.type = "system" -> Text(system)

\* Line 32: one {"type": ..., "content": ...} per message, in order.
serializable_messages(messages) ==
    [i \in 1..Len(messages) |->
        Dict((type :> TypeText(messages[i])) @@ (content :> messages[i].content))]

\* Lines 35-40: s3_client.put_object.  The store takes the body as the object
\* under Key, in place of any earlier one, or answers with a ClientError, or the
\* client fails before any answer.
put_object(objects, fault, Key, Body) ==
    CASE fault \in ClientErrorCodes -> Raises(ClientError(fault))
      [] fault # "none" -> Raises([exc |-> fault, Code |-> None])
      [] OTHER -> [ok |-> TRUE, v |-> DictSet(objects, Key, Body)]

\* Lines 20-42: save_chat_history; the value is the store after the call.
save_chat_history(bucket, session_id, messages, objects, fault) ==
    IF ~Truthy(bucket) THEN [ok |-> TRUE, v |-> objects]
    ELSE LET put == put_object(objects, fault, S3Key(session_id),
                               List(serializable_messages(messages)))
         IN IF ~put.ok /\ put.err.exc = "ClientError"
            THEN [ok |-> TRUE, v |-> objects]
            ELSE put

MaxMessages == 2
MaxSaves == 2

\* The message lists a caller saves.
MessageLists ==
    SeqsUpTo({HumanMessage(Text(<<"h", "i">>)), AIMessage(Text(<<"y", "o">>)),
              SystemMessage(Text(<<"b", "e">>))}, MaxMessages)

SaveFaults == {"none", "AccessDenied", "EndpointConnectionError"}

\* A call of save_chat_history returns or raises; callArgs.saves keeps the calls
\* made so far.
SaveChatHistoryCall ==
    /\ callPc = "call"
    /\ Len(callArgs.saves) < MaxSaves
    /\ \E session_id \in ChatSessions, messages \in MessageLists, fault \in SaveFaults :
         LET done == save_chat_history(callArgs.S3_BUCKET_NAME, session_id, messages,
                                       callArgs.objects, fault)
             saves == Append(callArgs.saves,
                             [session_id |-> session_id, messages |-> messages,
                              fault |-> fault])
         IN IF done.ok
            THEN /\ callPc' = "call"
                 /\ callArgs' = [callArgs EXCEPT !.objects = done.v, !.saves = saves]
            ELSE /\ callPc' = "raised"
                 /\ callArgs' = [callArgs EXCEPT !.saves = saves]
    /\ UNCHANGED callResult
    /\ CallFrame

\* An empty store, some saves, then the load of callArgs.session_id.
ChatSaveInit ==
    /\ callPc = "call"
    /\ callArgs \in [S3_BUCKET_NAME : {"", "bucket"}, session_id : ChatSessions,
                     objects : {EmptyDict}, fault : {"none", "AccessDenied"},
                     saves : {<<>>}]
    /\ callResult = None
    /\ ImgIdle /\ VidIdle /\ ListIdle /\ ads = <<>> /\ FetchIdle /\ ReconIdle /\ FlatIdle
    /\ CollectIdle /\ EnvSet

ChatSaveNext ==
    \/ SaveChatHistoryCall
    \/ LoadChatHistoryCall

SpecChatSave == ChatSaveInit /\ [][ChatSaveNext]_vars

\* The saves made for a session, by position in callArgs.saves.
SavesOf(session_id) ==
    {i \in DOMAIN callArgs.saves : callArgs.saves[i].session_id = session_id}

\* The latest save made for a session.
LastSave(session_id) ==
    callArgs.saves[CHOOSE i \in SavesOf(session_id) : \A j \in SavesOf(session_id) : j <= i]

\* C33: with a bucket configured and no store error, a load that follows saves
\* of the same session returns the messages of the latest of them: as many
\* messages, with the same types and contents, in the same order, whatever the
\* list saved.
C33_RoundTrip ==
    /\ callPc = "returned"
    /\ Truthy(callArgs.S3_BUCKET_NAME)
    /\ callArgs.fault = "none"
    /\ SavesOf(callArgs.session_id) # {}
    /\ \A i \in SavesOf(callArgs.session_id) : callArgs.saves[i].fault = "none"
    => callResult = LastSave(callArgs.session_id).messages

====
